---- MODULE Spec2Model ----
(***************************************************************************)
(* OpenBlock Link simulator: the WebSocket session and device-simulation   *)
(* engine.  The state is the connection registry, each connection's device *)
(* map, the pending timers of the event loop and the frames written by the *)
(* last step.  Every handler and every timer callback is one action.       *)
(* Spec is the simulated server; RealSpec is the variant that attaches a   *)
(* real Raspberry Pi Pico through a bridge process shared by every         *)
(* connection.                                                             *)
(***************************************************************************)
EXTENDS Bags, FiniteSets, Integers, Sequences, TLC

\* ------------------------------------------------------------------ bounds
\* External events the environment delivers in one run: connections accepted,
\* messages received, transports closed or failed, clock ticks.
MaxEvents == 4

\* ------------------------------------------------------- values and inputs
\* JavaScript's undefined (a field the message does not carry).
NoValue == "undefined"

\* The keys of SIMULATED_DEVICES.
CatalogIds == {"arduino-uno", "microbit-v2", "raspberry-pico"}

\* Property names every plain object inherits from Object.prototype: the
\* lookup SIMULATED_DEVICES[deviceId] finds them although they are no keys.
InheritedKeys == {"constructor"}

\* The deviceId values the modelled clients send.
DeviceInputs == {"arduino-uno", "raspberry-pico", "ghost-device", "constructor"}

\* The default port of a catalog entry (the port field of SIMULATED_DEVICES).
CatalogPort(d) ==
    CASE d = "arduino-uno" -> "COM3"
      [] d = "microbit-v2" -> "COM4"
      [] d = "raspberry-pico" -> "COM5"
      [] OTHER -> NoValue

\* The capabilities and pins fields of a catalog entry.  An inherited key has
\* neither, and JSON.stringify leaves an undefined field out of the frame.
CatalogCapabilities(d) ==
    CASE d = "arduino-uno" -> <<"digital", "analog", "pwm", "serial">>
      [] d = "microbit-v2" -> <<"led", "button", "accelerometer", "compass", "temperature">>
      [] d = "raspberry-pico" -> <<"digital", "analog", "pwm", "i2c", "spi">>
      [] OTHER -> <<>>

CatalogPins(d) ==
    CASE d = "arduino-uno" ->
            [digital |-> <<2, 3, 4, 5, 6, 7, 8, 9, 10, 11, 12, 13>>,
             analog |-> <<"A0", "A1", "A2", "A3", "A4", "A5">>,
             pwm |-> <<3, 5, 6, 9, 10, 11>>]
      [] d = "microbit-v2" ->
            [digital |-> <<0, 1, 2, 3, 4, 5, 6, 7, 8, 9, 10, 11, 12, 13, 14, 15, 16, 19, 20>>,
             analog |-> <<0, 1, 2, 3, 4, 10>>]
      [] d = "raspberry-pico" ->
            [digital |-> <<0, 1, 2, 3, 4, 5, 6, 7, 8, 9, 10, 11, 12, 13, 14, 15, 16, 17, 18,
                           19, 20, 21, 22, 26, 27, 28>>,
             analog |-> <<26, 27, 28, 29>>]
      [] OTHER -> <<>>

\* SIMULATED_DEVICES[deviceId] as the handlers use it: a truthy value or not.
DeviceFound(d) == d \in CatalogIds \/ d \in InheritedKeys

\* connectDevice's optional fields as the clients send them.
ConnectInputs ==
    { [peripheralId |-> NoValue, hasBaudrate |-> FALSE, baudrate |-> 0],
      [peripheralId |-> "COM9", hasBaudrate |-> TRUE, baudrate |-> 115200] }

\* The code payloads of uploadCode / executeCode (NoValue: no code field).
CodeInputs == {"led.on()", NoValue}

\* A code field holding a JSON number: its length is undefined and it has no
\* split, so code.length passes and code.split(...) throws.
NonString == "<number>"

\* message.type values outside the dispatch table (NoValue: no type field).
UnknownTypes == {"reset", NoValue}

\* setInterval periods the telemetry generator may draw (1000 + random*2000).
Intervals == {1000}

DefaultBaudrate == 9600

Clients == 1..MaxEvents

VARIABLES
    connectionId,       \* let connectionId: the process-wide counter
    activeConnections,  \* the keys of the activeConnections Map
    readyState,         \* readyState[c]: the transport of connection c
    devices,            \* devices[c]: connection c's devices Map (the object the closures hold)
    timers,             \* the event loop's pending setTimeout / setInterval callbacks (a bag)
    now,                \* the wall clock (Date.now(), new Date())
    events,             \* external events delivered so far
    last,               \* the handler or callback the last step ran
    out,                \* the frames the last step wrote, in order
    picoProcess,        \* let picoProcess / picoConnection: the attached bridge process, 0 for null
    bridges,            \* the bridge processes that are alive
    spawned,            \* bridge processes connected so far
    catalog,            \* the status and port fields of SIMULATED_DEVICES['raspberry-pico']
    build,              \* the Arduino device's build: its promise, CLI process and abort flag
    flash,              \* the Arduino device's flash: its promise, CLI process and waits
    upload              \* PicoCompiler.upload: its promise, bridge process and timers

\* What the simulated server has no access to.
realVars == <<picoProcess, bridges, spawned, catalog, build, flash, upload>>

vars == <<connectionId, activeConnections, readyState, devices, timers, now, events, last, out,
          picoProcess, bridges, spawned, catalog, build, flash, upload>>

\* ------------------------------------------------------------- timestamps
\* The clock counts milliseconds.  new Date().toISOString() writes the instant
\* as text with its seconds and a three-digit millisecond part; new
\* Date(text).getTime() reads the instant back.
toISOString(t) == [sec |-> t \div 1000, ms |-> t % 1000]
getTime(iso) == iso.sec * 1000 + iso.ms

\* How far the clock moves between two events.
TickSteps == {999}

\* ------------------------------------------------------------------ frames
\* One ws.send: the socket it is written to, the JSON fields the claims read,
\* and whether the socket was OPEN (a frame written to a socket that is not
\* open never reaches the client).
Frame(c, type, d, note, n, code) ==
    [to |-> c, type |-> type, deviceId |-> d, note |-> note, n |-> n, code |-> code,
     at |-> toISOString(0), devices |-> [x \in {} |-> FALSE],
     capabilities |-> <<>>, pins |-> <<>>, pin |-> "",
     delivered |-> readyState[c] = "open"]

ErrorFrame(c, d, note) == Frame(c, "error", d, note, 0, "")

\* code.length
CodeLength(code) == Len(code)

\* A pending callback.  Every kind carries the values its closure captured.
Timer(kind, c, d, p, b, code, iv) ==
    [kind |-> kind, client |-> c, deviceId |-> d, peripheralId |-> p, baudrate |-> b,
     code |-> code, interval |-> iv, proc |-> 0]

Schedule(bag, t) == bag (+) SetToBag({t})
Cancel(bag, t) == bag (-) SetToBag({t})

Pending == BagToSet(timers)

Has(c, d) == d \in DOMAIN devices[c]

\* What ran: src is "message" (kind is then message.type), "timer" (kind is
\* the callback), or the socket / clock event itself.
Event(src, kind, c, d) == [src |-> src, kind |-> kind, client |-> c, deviceId |-> d]

\* Map.set / Map.delete on a devices Map.
MapSet(m, k, v) == [x \in DOMAIN m \cup {k} |-> IF x = k THEN v ELSE m[x]]
MapDelete(m, k) == [x \in DOMAIN m \ {k} |-> m[x]]
EmptyMap == [x \in {} |-> 0]

\* The texts of the error frames (accents dropped).
MsgInvalid == "Formato de mensaje invalido"
MsgUnsupported(t) == "Tipo de mensaje no soportado: " \o t
MsgNotFound(d) == "Dispositivo no encontrado: " \o d
MsgAlready(d) == "Dispositivo " \o d \o " ya esta conectado"
MsgNotConnected(d) == "Dispositivo " \o d \o " no esta conectado"

\* -------------------------------------------------------- Arduino build
\* outCode of the CLI's 'exit' event: null when a signal ended the process.
NullCode == -1
ExitCodes == {NullCode, 0, 1, 2, 3, 4, 5}

\* How far a call of build gets: the PicoLib compiler for a Pico W, a failed
\* validation, a cache hit, a failed write of the code file, a successful
\* compileWithFallback, or the spawn of arduino-cli.
BuildPaths == {"picoW", "invalid", "cached", "writeFailed", "fallback", "cli"}

\* String.prototype.includes
stringIncludes(s, t) ==
    \E i \in 1..(Len(s) - Len(t) + 1) : SubSeq(s, i, i + Len(t) - 1) = t

picoWIdentifiers ==
    {"rp2040:rp2040:rpipicow", "arduinoRaspberryPiPicoW", "raspberry-pi-pico-w", "pico-w"}

\* What the constructor is given: config.fqbn, config.deviceId ("" when the
\* config has none) and the peripheral path.
Fqbns == {"arduino:avr:uno", "rp2040:rp2040:rpipico", "rp2040:rp2040:rpipicow"}
DeviceIds == {"", "arduinoUno", "arduinoRaspberryPiPicoW_v2"}
PeripheralPaths == {"/dev/ttyUSB0", "/dev/tty.pico-w-0001"}

\* A detection that looks at config.fqbn only.
isPicoWDevice_FqbnOnly(b) ==
    \E identifier \in picoWIdentifiers :
        b.fqbn # "" /\ stringIncludes(b.fqbn, identifier)

\* isPicoWDevice(): an empty or missing string is skipped by the && guards.
isPicoWDevice(b) ==
    \E identifier \in picoWIdentifiers :
        \/ b.fqbn # "" /\ stringIncludes(b.fqbn, identifier)
        \/ b.deviceId # "" /\ stringIncludes(b.deviceId, identifier)
        \/ b.peripheralPath # "" /\ stringIncludes(b.peripheralPath, identifier)

\* The components a call of build has used when it gets as far as path.
Uses(path) ==
    CASE path = "picoW" -> {"picolib"}
      [] path = "invalid" -> {"validator"}
      [] path = "cached" -> {"validator", "cache"}
      [] path = "writeFailed" -> {"validator", "cache"}
      [] path = "fallback" -> {"validator", "cache", "fallback"}
      [] OTHER -> {"validator", "cache", "fallback", "arduino-cli"}

\* The sketches handed to build; CodeValidator finds a syntax error in one.
BuildCodes == {"blink", "servo", "broken"}

validSyntax(code) == code # "broken"

\* this._maxCacheAge: 24 hours, in milliseconds.
maxCacheAge == 24 * 60 * 60 * 1000

\* How far the clock moves between two calls.
ClockSteps == {1, maxCacheAge}

\* A cache whose entries never expire.
isCacheExpired_Never(timestamp, t) == FALSE

\* isCacheExpired: the entry's age at time t exceeds the maximum.
isCacheExpired(timestamp, t) == t - timestamp > maxCacheAge

\* getCachedBuild, as build tests it: an entry for the key that has not
\* expired.  The key is a hash of code, config and libraries; config and
\* libraries are fixed by the constructor, so the code stands for the key.
getCachedBuild(cache, key, t) ==
    key \in DOMAIN cache /\ ~isCacheExpired(cache[key], t)

\* setCachedBuild: the entry is stamped with Date.now().
setCachedBuild(b, key, t) == [b EXCEPT !.cache = MapSet(@, key, t)]

\* The record of a compiler run that ended well: the code and the time.
Compiled(b, t) == [b EXCEPT !.compiled = MapSet(@, b.code, t)]

\* The Arduino object before its first build (this._abort = false), with an
\* empty cache.
NoBuild ==
    [phase |-> "idle", path |-> "", abort |-> FALSE, killed |-> FALSE, poll |-> FALSE,
     exitCode |-> NullCode, settled |-> "none", value |-> "",
     fqbn |-> "arduino:avr:uno", deviceId |-> "", peripheralPath |-> "/dev/ttyUSB0",
     used |-> {}, code |-> "", cache |-> EmptyMap, compiled |-> EmptyMap]

\* The Arduino object before its first flash.
NoFlash ==
    [proc |-> "none", killed |-> FALSE, poll |-> FALSE, exitCode |-> NullCode,
     errored |-> FALSE, settled |-> "none", value |-> "", wait |-> "",
     postUploadDelay |-> FALSE]

\* The PicoCompiler before upload is called.
NoUpload ==
    [phase |-> "idle", settled |-> "none", alive |-> FALSE, output |-> FALSE,
     hasError |-> FALSE, check |-> FALSE, timeout |-> FALSE, copy |-> "none",
     kills |-> 0, closeCode |-> NullCode, late |-> {}]

\* ------------------------------------------------------------------- Init
Init ==
    /\ connectionId = 0
    /\ activeConnections = {}
    /\ readyState = [c \in Clients |-> "none"]
    /\ devices = [c \in Clients |-> EmptyMap]
    /\ timers = EmptyBag
    /\ now = 0
    /\ events = 0
    /\ last = Event("start", "", 0, "")
    /\ out = <<>>
    /\ picoProcess = 0
    /\ bridges = {}
    /\ spawned = 0
    /\ catalog = [status |-> "available", port |-> CatalogPort("raspberry-pico")]
    /\ build = NoBuild
    /\ flash = NoFlash
    /\ upload = NoUpload

\* ------------------------------------------------- connection lifecycle
\* A registry that hands a closed connection's id to the next one.
Accept_ReusesFreedIds ==
    /\ events < MaxEvents
    /\ events' = events + 1
    /\ LET clientId == CHOOSE c \in Clients :
                         /\ c \notin activeConnections
                         /\ \A b \in Clients : b < c => b \in activeConnections
       IN
        /\ connectionId' = clientId
        /\ activeConnections' = activeConnections \cup {clientId}
        /\ readyState' = [readyState EXCEPT ![clientId] = "open"]
        /\ devices' = [devices EXCEPT ![clientId] = EmptyMap]
        /\ out' = << [Frame(clientId, "welcome", "", "1.0.0", clientId, "")
                        EXCEPT !.delivered = TRUE] >>
        /\ last' = Event("connection", "", clientId, "")
    /\ UNCHANGED <<timers, now>>
    /\ UNCHANGED realVars

\* wss.on('connection'): register the connection and send the welcome frame.
Accept ==
    /\ events < MaxEvents
    /\ events' = events + 1
    /\ LET clientId == connectionId + 1 IN
        /\ connectionId' = clientId
        /\ activeConnections' = activeConnections \cup {clientId}
        /\ readyState' = [readyState EXCEPT ![clientId] = "open"]
        /\ devices' = [devices EXCEPT ![clientId] = EmptyMap]
        /\ out' = << [Frame(clientId, "welcome", "", "1.0.0", clientId, "")
                        EXCEPT !.delivered = TRUE] >>
        /\ last' = Event("connection", "", clientId, "")
    /\ UNCHANGED <<timers, now>>
    /\ UNCHANGED realVars

\* A delete that registers the id again when it finds it gone.
OnCloseBody_Toggles(c) ==
    /\ activeConnections' = IF c \in activeConnections
                            THEN activeConnections \ {c}
                            ELSE activeConnections \cup {c}
    /\ UNCHANGED <<devices, timers>>

\* ws.on('close'): the registry entry is deleted; nothing else is touched.
OnCloseBody(c) ==
    /\ activeConnections' = activeConnections \ {c}
    /\ UNCHANGED <<devices, timers>>

WsClose(c) ==
    /\ \/ readyState[c] = "closing" /\ events' = events
       \/ readyState[c] = "open" /\ events < MaxEvents /\ events' = events + 1
    /\ readyState' = [readyState EXCEPT ![c] = "closed"]
    /\ OnCloseBody(c)
    /\ out' = <<>>
    /\ last' = Event("close", "", c, "")
    /\ UNCHANGED <<connectionId, now>>
    /\ UNCHANGED realVars

\* ws.on('error'): the same deletion; the transport is on its way to closed
\* and its close event follows.
WsError(c) ==
    /\ readyState[c] = "open"
    /\ events < MaxEvents
    /\ events' = events + 1
    /\ readyState' = [readyState EXCEPT ![c] = "closing"]
    /\ OnCloseBody(c)
    /\ out' = <<>>
    /\ last' = Event("error", "", c, "")
    /\ UNCHANGED <<connectionId, now>>
    /\ UNCHANGED realVars

\* Time passes.
Tick ==
    /\ events < MaxEvents
    /\ events' = events + 1
    /\ \E step \in TickSteps : now' = now + step
    /\ out' = <<>>
    /\ last' = Event("tick", "", 0, "")
    /\ UNCHANGED <<connectionId, activeConnections, readyState, devices, timers>>
    /\ UNCHANGED realVars


\* ------------------------------------------------------- message handlers
\* Each handler below is the body run by handleMessage for one message kind:
\* it decides devices', timers' and out'.

\* A catch block that also tears the connection's sessions down.
handleParseError_DropsSessions(c) ==
    /\ out' = << ErrorFrame(c, "", MsgInvalid) >>
    /\ devices' = [devices EXCEPT ![c] = EmptyMap]
    /\ UNCHANGED timers

\* catch (error) of ws.on('message'): one error frame, nothing else.
handleParseError(c) ==
    /\ out' = << ErrorFrame(c, "", MsgInvalid) >>
    /\ UNCHANGED <<devices, timers>>

\* A switch with no default case: unknown types are ignored.
handleUnknownType_Silent(c, t) ==
    /\ out' = <<>>
    /\ UNCHANGED <<devices, timers>>

\* default: of handleMessage's switch.
handleUnknownType(c, t) ==
    /\ out' = << ErrorFrame(c, "", MsgUnsupported(t)) >>
    /\ UNCHANGED <<devices, timers>>

\* A list whose connected flag is set when any connection has the device.
deviceListEntries_AnyConnection(c) ==
    [d \in CatalogIds |-> \E b \in activeConnections : Has(b, d)]

\* Object.values(SIMULATED_DEVICES).map(...): one entry per catalog device,
\* its connected flag read from the requesting connection's device map.
deviceListEntries(c) == [d \in CatalogIds |-> Has(c, d)]

\* The deviceList frame: the entries and their count.
DeviceListFrame(c) ==
    [Frame(c, "deviceList", "", "", Cardinality(DOMAIN deviceListEntries(c)), "")
        EXCEPT !.devices = deviceListEntries(c)]

\* handleGetDeviceList
handleGetDeviceList(c) ==
    /\ out' = << DeviceListFrame(c) >>
    /\ UNCHANGED <<devices, timers>>

\* A connect handler that stores the session and starts its telemetry at
\* once, before the delayed completion has sent deviceConnected.
handleConnectDevice_SessionAtOnce(c, d, opt) ==
    IF ~DeviceFound(d)
    THEN /\ out' = << ErrorFrame(c, d, MsgNotFound(d)) >>
         /\ UNCHANGED <<devices, timers>>
    ELSE /\ timers' = Schedule(Schedule(timers,
                Timer("connect", c, d, opt.peripheralId,
                      IF opt.hasBaudrate THEN opt.baudrate ELSE DefaultBaudrate, "", 0)),
                Timer("telemetry", c, d, "", 0, "", 1000))
         /\ out' = <<>>
         /\ devices' = [devices EXCEPT
                ![c] = MapSet(@, d, [peripheralId |-> CatalogPort(d),
                                     baudrate |-> DefaultBaudrate,
                                     connectedAt |-> toISOString(now),
                                     status |-> "connected"])]

\* handleConnectDevice: the lookup, then the delayed completion is scheduled.
handleConnectDevice(c, d, opt) ==
    IF ~DeviceFound(d)
    THEN /\ out' = << ErrorFrame(c, d, MsgNotFound(d)) >>
         /\ UNCHANGED <<devices, timers>>
    ELSE /\ timers' = Schedule(timers,
                Timer("connect", c, d, opt.peripheralId,
                      IF opt.hasBaudrate THEN opt.baudrate ELSE DefaultBaudrate, "", 0))
         /\ out' = <<>>
         /\ UNCHANGED devices

\* A disconnect handler whose error path forgets every session of the connection.
handleDisconnectDevice_ErrorClearsSessions(c, d) ==
    IF ~Has(c, d)
    THEN /\ out' = << ErrorFrame(c, d, MsgNotConnected(d)) >>
         /\ devices' = [devices EXCEPT ![c] = EmptyMap]
         /\ UNCHANGED timers
    ELSE /\ devices' = [devices EXCEPT ![c] = MapDelete(@, d)]
         /\ out' = << Frame(c, "deviceDisconnected", d, "", 0, "") >>
         /\ UNCHANGED timers

\* handleDisconnectDevice: immediate; the session's interval is not cleared here.
handleDisconnectDevice(c, d) ==
    IF ~Has(c, d)
    THEN /\ out' = << ErrorFrame(c, d, MsgNotConnected(d)) >>
         /\ UNCHANGED <<devices, timers>>
    ELSE /\ devices' = [devices EXCEPT ![c] = MapDelete(@, d)]
         /\ out' = << Frame(c, "deviceDisconnected", d, "", 0, "") >>
         /\ UNCHANGED timers

\* handleSendData: the echo is scheduled (100-300 ms).
handleSendData(c, d) ==
    IF ~Has(c, d)
    THEN /\ out' = << ErrorFrame(c, d, MsgNotConnected(d)) >>
         /\ UNCHANGED <<devices, timers>>
    ELSE /\ timers' = Schedule(timers, Timer("echo", c, d, "", 0, "", 0))
         /\ out' = <<>>
         /\ UNCHANGED devices

\* A status handler that subtracts the wrong way round.
handleGetDeviceStatus_NegatedUptime(c, d) ==
    /\ IF ~Has(c, d)
       THEN out' = << ErrorFrame(c, d, MsgNotConnected(d)) >>
       ELSE out' = << [Frame(c, "deviceStatus", d, devices[c][d].status,
                            getTime(devices[c][d].connectedAt) - now, "")
                       EXCEPT !.at = devices[c][d].connectedAt] >>
    /\ UNCHANGED <<devices, timers>>

\* handleGetDeviceStatus: uptime is Date.now() minus the parsed connectedAt.
handleGetDeviceStatus(c, d) ==
    /\ IF ~Has(c, d)
       THEN out' = << ErrorFrame(c, d, MsgNotConnected(d)) >>
       ELSE out' = << [Frame(c, "deviceStatus", d, devices[c][d].status,
                            now - getTime(devices[c][d].connectedAt), "")
                       EXCEPT !.at = devices[c][d].connectedAt] >>
    /\ UNCHANGED <<devices, timers>>

\* handlePing
handlePing(c) ==
    /\ out' = << Frame(c, "pong", "", "", 0, "") >>
    /\ UNCHANGED <<devices, timers>>

\* handleUploadCode: code.length of a missing code throws inside the try of
\* ws.on('message'), before anything is scheduled.
handleUploadCode(c, d, code) ==
    IF ~Has(c, d)
    THEN /\ out' = << ErrorFrame(c, d, MsgNotConnected(d)) >>
         /\ UNCHANGED <<devices, timers>>
    ELSE IF code = NoValue
    THEN handleParseError(c)
    ELSE /\ timers' = Schedule(timers, Timer("upload", c, d, "", 0, code, 0))
         /\ out' = <<>>
         /\ UNCHANGED devices

\* handleExecuteCode past its registry check; bag is the event loop's pending
\* callbacks when it is called.  A missing code, or one that is not a string,
\* makes code.split throw, which the try of ws.on('message') catches (for the
\* call from the upload's callback see FireChain).  Otherwise the codeExecuted
\* frame is scheduled (500-1500 ms).
handleExecuteCode(c, d, code, bag) ==
    IF ~Has(c, d)
    THEN /\ out' = << ErrorFrame(c, d, MsgNotConnected(d)) >>
         /\ timers' = bag
         /\ UNCHANGED devices
    ELSE IF code \in {NoValue, NonString}
    THEN /\ out' = << ErrorFrame(c, "", MsgInvalid) >>
         /\ timers' = bag
         /\ UNCHANGED devices
    ELSE /\ timers' = Schedule(bag, Timer("exec", c, d, "", 0, code, 0))
         /\ out' = <<>>
         /\ UNCHANGED devices

\* ws.on('message') for one inbound payload of connection c.
Receive(c, src, type, d) ==
    /\ readyState[c] = "open"
    /\ c \in activeConnections
    /\ events < MaxEvents
    /\ events' = events + 1
    /\ last' = Event(src, type, c, d)
    /\ UNCHANGED <<connectionId, activeConnections, readyState, now>>
    /\ UNCHANGED realVars

\* A payload JSON.parse rejects, or the JSON text null (message.type throws).
RecvUnparsable(c) == Receive(c, "unparsable", "", "") /\ handleParseError(c)

RecvUnknownType(c) ==
    \E t \in UnknownTypes : Receive(c, "message", t, "") /\ handleUnknownType(c, t)

RecvGetDeviceList(c) == Receive(c, "message", "getDeviceList", "") /\ handleGetDeviceList(c)

RecvConnectDevice(c) ==
    \E d \in DeviceInputs, opt \in ConnectInputs :
        Receive(c, "message", "connectDevice", d) /\ handleConnectDevice(c, d, opt)

RecvDisconnectDevice(c) ==
    \E d \in DeviceInputs : Receive(c, "message", "disconnectDevice", d) /\ handleDisconnectDevice(c, d)

RecvSendData(c) ==
    \E d \in DeviceInputs : Receive(c, "message", "sendData", d) /\ handleSendData(c, d)

RecvGetDeviceStatus(c) ==
    \E d \in DeviceInputs : Receive(c, "message", "getDeviceStatus", d) /\ handleGetDeviceStatus(c, d)

RecvPing(c) == Receive(c, "message", "ping", "") /\ handlePing(c)

RecvUploadCode(c) ==
    \E d \in DeviceInputs, code \in CodeInputs :
        Receive(c, "message", "uploadCode", d) /\ handleUploadCode(c, d, code)

RecvExecuteCode(c) ==
    \E d \in DeviceInputs, code \in CodeInputs :
        Receive(c, "message", "executeCode", d) /\ handleExecuteCode(c, d, code, timers)

\* ------------------------------------------------------ simulated output
\* Code as handleExecuteCode sees it: lines, each a statement text, possibly
\* behind a '#'.
MaxLines == 2

StatementTexts == {"print('hello')", "print(f'ok')", "led.on()", "x = 1"}

CodeLines == [comment : BOOLEAN, text : StatementTexts]

Programs == UNION {[1..n -> CodeLines] : n \in 1..MaxLines}

LineText(l) == IF l.comment THEN "# " \o l.text ELSE l.text

\* Array.prototype.join
RECURSIVE join(_, _)
join(ss, sep) ==
    IF ss = <<>> THEN ""
    ELSE IF Len(ss) = 1 THEN ss[1]
    ELSE ss[1] \o sep \o join(Tail(ss), sep)

\* The text of a program.
CodeText(p) == join([i \in DOMAIN p |-> LineText(p[i])], "\n")

\* code.split('\n') of such a text; a text that is one line splits into itself.
split(code) ==
    IF \E l \in CodeLines : LineText(l) = code
    THEN << CHOOSE l \in CodeLines : LineText(l) = code >>
    ELSE CHOOSE p \in Programs : CodeText(p) = code

\* A match that yields the whole statement instead of the captured group.
printMatch_WholeStatement(text) ==
    IF text = "print('hello')" THEN << text >> ELSE <<>>

\* trimmedLine.match(/print\(['"](.*?)['"]\)/): the captured group, if any.
printMatch(text) ==
    IF text = "print('hello')" THEN << "hello" >> ELSE <<>>

\* trimmedLine.match(/print\(f['"](.*?)['"]\)/), the placeholders replaced.
fStringMatch(text) ==
    IF text = "print(f'ok')" THEN << "ok" >> ELSE <<>>

\* What lines.forEach pushes for one line.
lineOutput(l) ==
    IF l.text = "" \/ l.comment
    THEN <<>>
    ELSE printMatch(l.text) \o fStringMatch(l.text)

RECURSIVE linesOutput(_)
linesOutput(p) ==
    IF p = <<>> THEN <<>> ELSE lineOutput(Head(p)) \o linesOutput(Tail(p))

\* code.includes(idiom): the whole text is searched, comments included.
includes(p, idiom) == \E i \in DOMAIN p : p[i].text = idiom

MarkLedOn == "LED encendido"
MarkLedOff == "LED apagado"
MarkSleep == "Esperando..."
MarkLoop == "Bucle infinito iniciado"

idiomOutput(p) ==
    (IF includes(p, "led.on()") THEN << MarkLedOn >> ELSE <<>>)
    \o (IF includes(p, "led.off()") THEN << MarkLedOff >> ELSE <<>>)
    \o (IF includes(p, "time.sleep") THEN << MarkSleep >> ELSE <<>>)
    \o (IF includes(p, "while True") THEN << MarkLoop >> ELSE <<>>)

\* The output handleExecuteCode computes for its codeExecuted frame.
simulatedOutput(code) ==
    LET p == split(code) IN join(linesOutput(p) \o idiomOutput(p), "\n")

\* ------------------------------------------------------- timer callbacks
\* A callback of connection c that has come due.
Fire(t, kind) ==
    /\ t \in Pending
    /\ t.kind = kind
    /\ last' = Event("timer", kind, t.client, t.deviceId)
    /\ UNCHANGED <<connectionId, activeConnections, readyState, now, events>>
    /\ UNCHANGED realVars

\* The session handleConnectDevice's completion stores.
NewSession(d, p, b) ==
    [peripheralId |-> IF p = NoValue THEN CatalogPort(d) ELSE p,
     baudrate |-> b, connectedAt |-> toISOString(now), status |-> "connected"]

\* startDeviceDataSimulation: returns early when the connection is no longer
\* registered, else arms one setInterval with a period drawn once.
startDeviceDataSimulation(c, d, bag, iv) ==
    IF c \notin activeConnections
    THEN bag
    ELSE Schedule(bag, Timer("telemetry", c, d, "", 0, "", iv))

\* A switch that only knows the raspberry-pico welcome action.
handleDeviceSpecificActions_PicoOnly(c, d, bag) ==
    IF c \notin activeConnections \/ d # "raspberry-pico"
    THEN bag
    ELSE Schedule(bag, Timer("welcome", c, d, "", 0, "", 0))

\* handleDeviceSpecificActions: one welcome callback for the three device
\* classes of its switch, none for any other id.
handleDeviceSpecificActions(c, d, bag) ==
    IF c \notin activeConnections \/ d \notin CatalogIds
    THEN bag
    ELSE Schedule(bag, Timer("welcome", c, d, "", 0, "", 0))

\* A completion without the duplicate check: the session is stored again.
connectCompletion_NoDuplicateCheck(t, iv) ==
    LET c == t.client
        d == t.deviceId
        rest == Cancel(timers, t)
    IN  /\ devices' = [devices EXCEPT
               ![c] = MapSet(@, d, NewSession(d, t.peripheralId, t.baudrate))]
        /\ out' = << [Frame(c, "deviceConnected", d,
                            IF t.peripheralId = NoValue THEN CatalogPort(d)
                            ELSE t.peripheralId,
                            t.baudrate, "")
                        EXCEPT !.capabilities = CatalogCapabilities(d),
                               !.pins = CatalogPins(d)] >>
        /\ timers' = handleDeviceSpecificActions(c, d,
                           startDeviceDataSimulation(c, d, rest, iv))

\* The setTimeout callback of handleConnectDevice.
connectCompletion(t, iv) ==
    LET c == t.client
        d == t.deviceId
        rest == Cancel(timers, t)
    IN  IF Has(c, d)
        THEN /\ out' = << ErrorFrame(c, d, MsgAlready(d)) >>
             /\ timers' = rest
             /\ UNCHANGED devices
        ELSE /\ devices' = [devices EXCEPT
                    ![c] = MapSet(@, d, NewSession(d, t.peripheralId, t.baudrate))]
             /\ out' = << [Frame(c, "deviceConnected", d,
                                 IF t.peripheralId = NoValue THEN CatalogPort(d)
                                 ELSE t.peripheralId,
                                 t.baudrate, "")
                             EXCEPT !.capabilities = CatalogCapabilities(d),
                                    !.pins = CatalogPins(d)] >>
             /\ timers' = handleDeviceSpecificActions(c, d,
                                startDeviceDataSimulation(c, d, rest, iv))

FireConnect(t) ==
    /\ Fire(t, "connect")
    /\ \E iv \in Intervals : connectCompletion(t, iv)

\* The setTimeout callback of handleSendData.
echoCompletion(t) ==
    /\ out' = << Frame(t.client, "deviceData", t.deviceId, "processed", 0, "") >>
    /\ timers' = Cancel(timers, t)
    /\ UNCHANGED devices

FireEcho(t) == Fire(t, "echo") /\ echoCompletion(t)

\* An upload completion that forgets the automatic execution.
uploadCompletion_NoAutoRun(t) ==
    /\ out' = << Frame(t.client, "codeUploaded", t.deviceId, "", CodeLength(t.code), t.code) >>
    /\ timers' = Cancel(timers, t)
    /\ UNCHANGED devices

\* The outer setTimeout callback of handleUploadCode: codeUploaded, then the
\* automatic execution is scheduled 1000 ms later.
uploadCompletion(t) ==
    /\ out' = << Frame(t.client, "codeUploaded", t.deviceId, "", CodeLength(t.code), t.code) >>
    /\ timers' = Schedule(Cancel(timers, t),
                          Timer("chain", t.client, t.deviceId, "", 0, t.code, 0))
    /\ UNCHANGED devices

FireUpload(t) == Fire(t, "upload") /\ uploadCompletion(t)

\* The inner setTimeout callback of handleUploadCode: handleExecuteCode,
\* which returns at once when the connection is no longer registered.
chainCompletion(t) ==
    IF t.client \notin activeConnections
    THEN /\ out' = <<>>
         /\ timers' = Cancel(timers, t)
         /\ UNCHANGED devices
    ELSE handleExecuteCode(t.client, t.deviceId, t.code, Cancel(timers, t))

\* The call of handleExecuteCode from the upload's callback reaches code.split.
ChainThrows(t) ==
    /\ t.code = NonString
    /\ t.client \in activeConnections
    /\ Has(t.client, t.deviceId)

\* The 1000 ms callback of handleUploadCode.  It runs on the event loop, with
\* no try around it: a throw of handleExecuteCode is an uncaught exception,
\* which ends the process.
FireChain(t) ==
    IF ChainThrows(t)
    THEN /\ t \in Pending
         /\ t.kind = "chain"
         /\ last' = Event("uncaughtException", "TypeError", t.client, t.deviceId)
         /\ timers' = Cancel(timers, t)
         /\ out' = <<>>
         /\ UNCHANGED <<connectionId, activeConnections, readyState, devices, now, events>>
         /\ UNCHANGED realVars
    ELSE Fire(t, "chain") /\ chainCompletion(t)

\* The setTimeout callback of handleExecuteCode.
execCompletion(t) ==
    /\ out' = << Frame(t.client, "codeExecuted", t.deviceId,
                       simulatedOutput(t.code), 0, t.code) >>
    /\ timers' = Cancel(timers, t)
    /\ UNCHANGED devices

FireExec(t) == Fire(t, "exec") /\ execCompletion(t)

\* The script the raspberry-pico welcome action injects (its first line) and
\* the output it pretends the script printed (its first line).
InjectedScript == "# Codigo inyectado automaticamente"
CannedOutput == "Pico iniciado - Codigo inyectado"

\* A welcome action that injects the script but never reports its output.
welcomeCompletion_NoOutput(t) ==
    LET c == t.client
        d == t.deviceId
    IN  /\ UNCHANGED devices
        /\ timers' = Cancel(timers, t)
        /\ IF d = "raspberry-pico"
           THEN out' = << Frame(c, "codeInjected", d, "", 0, InjectedScript) >>
           ELSE out' = << [Frame(c, "deviceAction", d,
                                 IF d = "arduino-uno" THEN "led_blink" ELSE "led_pattern",
                                 0, "")
                             EXCEPT !.pin = IF d = "arduino-uno" THEN "D13" ELSE ""] >>

\* The 1000 ms callbacks of handleDeviceSpecificActions.
welcomeCompletion(t) ==
    LET c == t.client
        d == t.deviceId
    IN  /\ UNCHANGED devices
        /\ IF d = "raspberry-pico"
           THEN /\ out' = << Frame(c, "codeInjected", d, "", 0, InjectedScript) >>
                /\ timers' = Schedule(Cancel(timers, t),
                                      Timer("codeOutput", c, d, "", 0, "", 0))
           ELSE /\ out' = << [Frame(c, "deviceAction", d,
                                    IF d = "arduino-uno" THEN "led_blink" ELSE "led_pattern",
                                    0, "")
                                EXCEPT !.pin = IF d = "arduino-uno" THEN "D13" ELSE ""] >>
                /\ timers' = Cancel(timers, t)

FireWelcome(t) == Fire(t, "welcome") /\ welcomeCompletion(t)

\* The 500 ms callback nested in the raspberry-pico welcome action.
codeOutputCompletion(t) ==
    /\ out' = << Frame(t.client, "codeOutput", t.deviceId, CannedOutput, 0, "") >>
    /\ timers' = Cancel(timers, t)
    /\ UNCHANGED devices

FireCodeOutput(t) == Fire(t, "codeOutput") /\ codeOutputCompletion(t)

\* An interval callback without the liveness check at fire time.
telemetryFiring_NoLivenessCheck(t) ==
    /\ out' = << Frame(t.client, "deviceData", t.deviceId, "telemetry", 0, "") >>
    /\ UNCHANGED <<devices, timers>>

\* The setInterval callback of startDeviceDataSimulation: it clears itself
\* when the device is no longer in the Map its closure holds, else it sends
\* one deviceData frame and stays armed with the same period.
telemetryFiring(t) ==
    IF ~Has(t.client, t.deviceId)
    THEN /\ out' = <<>>
         /\ timers' = Cancel(timers, t)
         /\ UNCHANGED devices
    ELSE /\ out' = << Frame(t.client, "deviceData", t.deviceId, "telemetry", 0, "") >>
         /\ UNCHANGED <<devices, timers>>

FireTelemetry(t) == Fire(t, "telemetry") /\ telemetryFiring(t)

\* ------------------------------------------------------------------- Next
Next ==
    \/ Accept
    \/ \E c \in Clients : WsClose(c)
    \/ \E c \in Clients : WsError(c)
    \/ Tick
    \/ \E c \in Clients : RecvUnparsable(c)
    \/ \E c \in Clients : RecvUnknownType(c)
    \/ \E c \in Clients : RecvGetDeviceList(c)
    \/ \E c \in Clients : RecvConnectDevice(c)
    \/ \E c \in Clients : RecvDisconnectDevice(c)
    \/ \E c \in Clients : RecvSendData(c)
    \/ \E c \in Clients : RecvGetDeviceStatus(c)
    \/ \E c \in Clients : RecvPing(c)
    \/ \E c \in Clients : RecvUploadCode(c)
    \/ \E c \in Clients : RecvExecuteCode(c)
    \/ \E t \in Pending : FireConnect(t)
    \/ \E t \in Pending : FireEcho(t)
    \/ \E t \in Pending : FireUpload(t)
    \/ \E t \in Pending : FireChain(t)
    \/ \E t \in Pending : FireExec(t)
    \/ \E t \in Pending : FireWelcome(t)
    \/ \E t \in Pending : FireCodeOutput(t)
    \/ \E t \in Pending : FireTelemetry(t)

Spec == Init /\ [][Next]_vars

\* The event loop runs every callback that has come due: no pending stage of
\* the code pipeline waits forever.
PipelineFairness ==
    /\ WF_vars(\E t \in Pending : FireUpload(t))
    /\ WF_vars(\E t \in Pending : FireChain(t))
    /\ WF_vars(\E t \in Pending : FireExec(t))

FairSpec == Spec /\ PipelineFairness

\* The event loop runs the connect completions and the welcome actions (with
\* the raspberry-pico's nested output callback) that have come due.
GreetingFairness ==
    /\ WF_vars(\E t \in Pending : FireConnect(t))
    /\ WF_vars(\E t \in Pending : FireWelcome(t))
    /\ WF_vars(\E t \in Pending : FireCodeOutput(t))

GreetingSpec == Spec /\ GreetingFairness

\* ===================================================== the real-Pico server
\* simulador-openblock-link-real.js: the same engine, with one bridge process
\* (module variables picoProcess / picoConnection) that every connection
\* shares.  The requests modelled are the ones whose handlers differ from the
\* simulated server's: getDeviceList, connectDevice, disconnectDevice and
\* executeCode.  A bridge process stays alive until the server kills it.

PicoId == "raspberry-pico"

\* What findPicoPorts settles with: a port list, an empty list, a rejection.
ScanOutcomes == {"found", "none", "failed"}

\* ports[0].device of a successful scan.
DetectedPort == "/dev/ttyACM0"

\* The deviceId and code values the modelled clients send to this server.
RealDeviceInputs == {"raspberry-pico", "arduino-uno"}
RealCodeInputs == {"led.on()"}

\* connectDevice's optional fields as the modelled clients send them here.
RealConnectInputs == {[peripheralId |-> NoValue, hasBaudrate |-> FALSE, baudrate |-> 0]}

MsgBridgeFailed == "Error conectando al Pico"
MsgExecTimeout == "Error ejecutando codigo: Timeout ejecutando codigo"

\* An exception thrown out of an event listener ends the process.
Running == last.src # "uncaughtException"

\* The capabilities of this server's catalog: raspberry-pico has one more.
RealCatalogCapabilities(d) ==
    IF d = PicoId
    THEN Append(CatalogCapabilities(d), "real_connection")
    ELSE CatalogCapabilities(d)

\* SIMULATED_DEVICES[d].port, which getDeviceList and the startup scan rewrite
\* for raspberry-pico.
RealCatalogPort(d) == IF d = PicoId THEN catalog.port ELSE CatalogPort(d)

\* A pending executePicoCode: the promise, its 10 s timeout and its onData
\* listener on the stdout of bridge process p.
BridgeWait(kind, c, d, code, p) == [Timer(kind, c, d, "", 0, code, 0) EXCEPT !.proc = p]

\* An onData listener left on its process after its promise has settled.
Stale(w) == [w EXCEPT !.kind = "picoStale"]

RealInit ==
    /\ connectionId = 0
    /\ activeConnections = {}
    /\ readyState = [c \in Clients |-> "none"]
    /\ devices = [c \in Clients |-> EmptyMap]
    /\ timers = SetToBag({Timer("startupScan", 0, "", "", 0, "", 0)})
    /\ now = 0
    /\ events = 0
    /\ last = Event("start", "", 0, "")
    /\ out = <<>>
    /\ picoProcess = 0
    /\ bridges = {}
    /\ spawned = 0
    /\ catalog = [status |-> "available", port |-> "auto-detect"]
    /\ build = NoBuild
    /\ flash = NoFlash
    /\ upload = NoUpload

\* wss.on('connection'): the welcome frame reports whether a bridge is attached.
RealAccept ==
    /\ Running
    /\ events < MaxEvents
    /\ events' = events + 1
    /\ LET clientId == connectionId + 1 IN
        /\ connectionId' = clientId
        /\ activeConnections' = activeConnections \cup {clientId}
        /\ readyState' = [readyState EXCEPT ![clientId] = "open"]
        /\ devices' = [devices EXCEPT ![clientId] = EmptyMap]
        /\ out' = << [Frame(clientId, "welcome", "", "2.0.0", clientId,
                            IF picoProcess # 0 THEN "realPicoAvailable" ELSE "")
                        EXCEPT !.delivered = TRUE] >>
        /\ last' = Event("connection", "", clientId, "")
    /\ UNCHANGED <<timers, now>>
    /\ UNCHANGED realVars

\* ws.on('message') for a payload that parses.
RealReceive(c, type, d) ==
    /\ Running
    /\ readyState[c] = "open"
    /\ c \in activeConnections
    /\ events < MaxEvents
    /\ events' = events + 1
    /\ last' = Event("message", type, c, d)
    /\ UNCHANGED <<connectionId, activeConnections, readyState, now>>

\* A callback of the event loop: a timer that has come due (src "timer") or
\* the continuation of an await (src "await").
RealFire(t, src, kind) ==
    /\ Running
    /\ t \in Pending
    /\ t.kind = kind
    /\ last' = Event(src, kind, t.client, t.deviceId)
    /\ UNCHANGED <<connectionId, activeConnections, readyState, now, events>>

\* The scan server.listen's callback awaits: a port found makes raspberry-pico
\* available on that port, anything else leaves the catalog alone.
FireStartupScan(t) ==
    /\ RealFire(t, "await", "startupScan")
    /\ \E r \in ScanOutcomes :
         catalog' = IF r = "found"
                    THEN [status |-> "available", port |-> DetectedPort]
                    ELSE catalog
    /\ timers' = Cancel(timers, t)
    /\ out' = <<>>
    /\ UNCHANGED <<devices, picoProcess, bridges, spawned, build, flash, upload>>

\* handleGetDeviceList: with no bridge attached it first awaits a port scan.
handleGetDeviceListReal(c) ==
    /\ IF picoProcess = 0
       THEN /\ timers' = Schedule(timers, Timer("scan", c, "", "", 0, "", 0))
            /\ out' = <<>>
       ELSE /\ out' = << DeviceListFrame(c) >>
            /\ UNCHANGED timers
    /\ UNCHANGED devices
    /\ UNCHANGED realVars

RealRecvGetDeviceList(c) ==
    RealReceive(c, "getDeviceList", "") /\ handleGetDeviceListReal(c)

\* handleGetDeviceList after its await: the catalog entry of raspberry-pico
\* is rewritten, then the list is sent.
scanCompletion(t) ==
    /\ \E r \in ScanOutcomes :
         catalog' = IF r = "found"
                    THEN [status |-> "available", port |-> DetectedPort]
                    ELSE [catalog EXCEPT !.status = "unavailable"]
    /\ out' = << DeviceListFrame(t.client) >>
    /\ timers' = Cancel(timers, t)
    /\ UNCHANGED <<devices, picoProcess, bridges, spawned, build, flash, upload>>

FireScan(t) == RealFire(t, "await", "scan") /\ scanCompletion(t)

\* handleConnectDevice up to its setTimeout: the same lookup and scheduling
\* as the simulated server's.
RealRecvConnectDevice(c) ==
    \E d \in RealDeviceInputs, opt \in RealConnectInputs :
        /\ RealReceive(c, "connectDevice", d)
        /\ handleConnectDevice(c, d, opt)
        /\ UNCHANGED realVars

\* The session the completion stores, with its isReal flag.
RealNewSession(d, p, b, real) ==
    [peripheralId |-> IF p = NoValue THEN RealCatalogPort(d) ELSE p,
     baudrate |-> b, connectedAt |-> toISOString(now), status |-> "connected", isReal |-> real]

\* The completion from connection.devices.set on: the session, deviceConnected,
\* the telemetry interval and the welcome action.  bag is the pending
\* callbacks without the one that is running.
connectTail(c, d, p, b, bag, iv, real) ==
    /\ devices' = [devices EXCEPT ![c] = MapSet(@, d, RealNewSession(d, p, b, real))]
    /\ out' = << [Frame(c, "deviceConnected", d,
                        IF p = NoValue THEN RealCatalogPort(d) ELSE p, b,
                        IF real THEN "isReal" ELSE "")
                    EXCEPT !.capabilities = RealCatalogCapabilities(d),
                           !.pins = CatalogPins(d)] >>
    /\ timers' = handleDeviceSpecificActions(c, d, startDeviceDataSimulation(c, d, bag, iv))

\* The setTimeout callback of handleConnectDevice up to its await: the
\* duplicate check, then for an available raspberry-pico the bridge is
\* spawned and the callback waits for it.
connectCompletionReal(t, iv) ==
    LET c == t.client
        d == t.deviceId
        rest == Cancel(timers, t)
    IN  IF Has(c, d)
        THEN /\ out' = << ErrorFrame(c, d, MsgAlready(d)) >>
             /\ timers' = rest
             /\ UNCHANGED devices
        ELSE IF d = PicoId /\ catalog.status = "available"
        THEN /\ timers' = Schedule(rest, [t EXCEPT !.kind = "bridgeConnect"])
             /\ out' = <<>>
             /\ UNCHANGED devices
        ELSE connectTail(c, d, t.peripheralId, t.baudrate, rest, iv,
                         d = PicoId /\ picoProcess # 0)

RealFireConnect(t) ==
    /\ RealFire(t, "timer", "connect")
    /\ \E iv \in Intervals : connectCompletionReal(t, iv)
    /\ UNCHANGED realVars

\* connectToPico resolves (the bridge printed PICO_CONNECTED): the new process
\* replaces picoProcess, the relay listener is put on its stdout, and the
\* completion goes on without looking at the device map again.
BridgeConnected(t) ==
    /\ RealFire(t, "await", "bridgeConnect")
    /\ LET pid == spawned + 1 IN
        /\ spawned' = pid
        /\ picoProcess' = pid
        /\ bridges' = bridges \cup {pid}
    /\ \E iv \in Intervals :
         connectTail(t.client, t.deviceId, t.peripheralId, t.baudrate,
                     Cancel(timers, t), iv, TRUE)
    /\ UNCHANGED <<catalog, build, flash, upload>>

\* connectToPico rejects: one error frame, no session.
BridgeFailed(t) ==
    /\ RealFire(t, "await", "bridgeConnect")
    /\ out' = << ErrorFrame(t.client, t.deviceId, MsgBridgeFailed) >>
    /\ timers' = Cancel(timers, t)
    /\ UNCHANGED devices
    /\ UNCHANGED realVars

\* handleDisconnectDevice: disconnecting raspberry-pico kills the attached
\* bridge, whoever connected it.
handleDisconnectDeviceReal(c, d) ==
    IF ~Has(c, d)
    THEN /\ out' = << ErrorFrame(c, d, MsgNotConnected(d)) >>
         /\ UNCHANGED <<devices, timers>>
         /\ UNCHANGED realVars
    ELSE /\ IF d = PicoId /\ picoProcess # 0
            THEN /\ bridges' = bridges \ {picoProcess}
                 /\ picoProcess' = 0
            ELSE UNCHANGED <<picoProcess, bridges>>
         /\ devices' = [devices EXCEPT ![c] = MapDelete(@, d)]
         /\ out' = << Frame(c, "deviceDisconnected", d, "", 0, "") >>
         /\ UNCHANGED <<timers, spawned, catalog, build, flash, upload>>

RealRecvDisconnectDevice(c) ==
    \E d \in RealDeviceInputs :
        RealReceive(c, "disconnectDevice", d) /\ handleDisconnectDeviceReal(c, d)

\* handleExecuteCode: the bridge strategy for a real raspberry-pico session
\* while a bridge is attached (executePicoCode writes the code to its stdin
\* and waits for the marker), the simulated strategy otherwise.
handleExecuteCodeReal(c, d, code) ==
    /\ IF ~Has(c, d)
       THEN /\ out' = << ErrorFrame(c, d, MsgNotConnected(d)) >>
            /\ UNCHANGED timers
       ELSE IF d = PicoId /\ devices[c][d].isReal /\ picoProcess # 0
       THEN /\ timers' = Schedule(timers, BridgeWait("picoExec", c, d, code, picoProcess))
            /\ out' = <<>>
       ELSE /\ timers' = Schedule(timers, Timer("exec", c, d, "", 0, code, 0))
            /\ out' = <<>>
    /\ UNCHANGED devices
    /\ UNCHANGED realVars

RealRecvExecuteCode(c) ==
    \E d \in RealDeviceInputs, code \in RealCodeInputs :
        RealReceive(c, "executeCode", d) /\ handleExecuteCodeReal(c, d, code)

\* The 1000 ms callbacks of handleDeviceSpecificActions: for a real
\* raspberry-pico session the script goes to the bridge and nothing is sent.
welcomeCompletionReal(t) ==
    LET c == t.client
        d == t.deviceId
    IN  /\ UNCHANGED devices
        /\ IF d = PicoId
           THEN IF Has(c, d) /\ devices[c][d].isReal /\ picoProcess # 0
                THEN /\ out' = <<>>
                     /\ timers' = Schedule(Cancel(timers, t),
                                    BridgeWait("picoInject", c, d, InjectedScript, picoProcess))
                ELSE /\ out' = << Frame(c, "codeInjected", d, "", 0, InjectedScript) >>
                     /\ timers' = Schedule(Cancel(timers, t),
                                           Timer("codeOutput", c, d, "", 0, "", 0))
           ELSE /\ out' = << [Frame(c, "deviceAction", d,
                                    IF d = "arduino-uno" THEN "led_blink" ELSE "led_pattern",
                                    0, "")
                                EXCEPT !.pin = IF d = "arduino-uno" THEN "D13" ELSE ""] >>
                /\ timers' = Cancel(timers, t)

RealFireWelcome(t) ==
    /\ RealFire(t, "timer", "welcome")
    /\ welcomeCompletionReal(t)
    /\ UNCHANGED realVars

\* A relay that writes to every registered connection.
picoOutputRecipients_Everyone == activeConnections

\* The relay listener's forEach: the registered connections that have
\* raspberry-pico in their device map.
picoOutputRecipients == {c \in activeConnections : Has(c, PicoId)}

\* The picoOutput frames of one stdout chunk, in the registry's order.
RelayFrames ==
    LET F[i \in 0..connectionId] ==
            IF i = 0 THEN <<>>
            ELSE IF i \in picoOutputRecipients
                 THEN Append(F[i - 1], Frame(i, "picoOutput", PicoId, "", 0, ""))
                 ELSE F[i - 1]
    IN  F[connectionId]

\* A bridge process writes a chunk without the completion marker.
BridgeOutput(p) ==
    /\ Running
    /\ p \in bridges
    /\ out' = RelayFrames
    /\ last' = Event("bridge", "picoOutput", 0, PicoId)
    /\ UNCHANGED <<connectionId, activeConnections, readyState, devices, timers, now, events>>
    /\ UNCHANGED realVars

\* The onData listeners on process p: promises still waiting, and listeners
\* whose promise has settled.
Waiting(p) == {t \in Pending : t.proc = p /\ t.kind \in {"picoExec", "picoInject"}}
Listening(p) == {t \in Pending : t.proc = p /\ t.kind \in {"picoExec", "picoInject", "picoStale"}}

BagOf(S) == [t \in S |-> CopiesIn(t, timers)]

\* The codeExecuted frames of the executes settled by one marker.
RECURSIVE ResolvedFrames(_)
ResolvedFrames(S) ==
    IF S = {} THEN <<>>
    ELSE LET w == CHOOSE x \in S : TRUE
             f == Frame(w.client, "codeExecuted", w.deviceId, "isReal", 0, w.code)
         IN  [i \in 1..CopiesIn(w, timers) |-> f] \o ResolvedFrames(S \ {w})

\* A bridge process writes a chunk carrying CODE_EXECUTED.  The relay listener
\* runs first; then every onData listener on that stdout clears its timeout,
\* calls picoProcess.stdout.removeListener and resolves.  With picoProcess
\* null that call throws out of the listener; with another process attached
\* the listener stays where it is.
BridgeMarker(p) ==
    /\ Running
    /\ p \in bridges
    /\ Listening(p) # {}
    /\ IF picoProcess = 0
       THEN /\ out' = RelayFrames
            /\ last' = Event("uncaughtException", "TypeError", 0, PicoId)
            /\ UNCHANGED timers
       ELSE /\ out' = RelayFrames \o
                      ResolvedFrames({w \in Waiting(p) : w.kind = "picoExec"})
            /\ last' = Event("bridge", "marker", 0, PicoId)
            /\ timers' = IF picoProcess = p
                         THEN timers (-) BagOf(Listening(p))
                         ELSE (timers (-) BagOf(Waiting(p)))
                              (+) [s \in {Stale(w) : w \in Waiting(p)} |->
                                     CopiesIn(CHOOSE w \in Waiting(p) : Stale(w) = s, timers)]
    /\ UNCHANGED <<connectionId, activeConnections, readyState, devices, now, events>>
    /\ UNCHANGED realVars

\* The 10 s timeout of executePicoCode: the promise rejects; the listener is
\* left on the process and the process is left running.  An execute answers
\* with an error frame, the welcome injection only logs.
PicoExecTimeout(t) ==
    /\ \/ RealFire(t, "timer", "picoExec")
       \/ RealFire(t, "timer", "picoInject")
    /\ out' = IF t.kind = "picoExec"
              THEN << ErrorFrame(t.client, t.deviceId, MsgExecTimeout) >>
              ELSE <<>>
    /\ timers' = Schedule(Cancel(timers, t), Stale(t))
    /\ UNCHANGED devices
    /\ UNCHANGED realVars

\* executeCode without a code field for a device served by the simulated
\* strategy: code.split throws inside the async handleExecuteCode, the promise
\* of handleMessage rejects, and ws.on('message') neither awaits nor catches
\* it.  No frame is sent; the runtime either only warns about the unhandled
\* rejection or ends the process.
RealRecvExecuteNoCode(c) ==
    /\ Running
    /\ readyState[c] = "open"
    /\ c \in activeConnections
    /\ events < MaxEvents
    /\ events' = events + 1
    /\ \E d \in RealDeviceInputs :
         /\ Has(c, d)
         /\ ~(d = PicoId /\ devices[c][d].isReal /\ picoProcess # 0)
         /\ \E src \in {"message", "uncaughtException"} :
              last' = Event(src, "executeCode", c, d)
    /\ out' = <<>>
    /\ UNCHANGED <<connectionId, activeConnections, readyState, devices, timers, now>>
    /\ UNCHANGED realVars

RealNext ==
    \/ RealAccept
    \/ \E c \in Clients : Running /\ WsClose(c)
    \/ \E c \in Clients : Running /\ WsError(c)
    \/ \E c \in Clients : RealRecvGetDeviceList(c)
    \/ \E c \in Clients : RealRecvConnectDevice(c)
    \/ \E c \in Clients : RealRecvDisconnectDevice(c)
    \/ \E c \in Clients : RealRecvExecuteCode(c)
    \/ \E c \in Clients : RealRecvExecuteNoCode(c)
    \/ \E t \in Pending : FireStartupScan(t)
    \/ \E t \in Pending : FireScan(t)
    \/ \E t \in Pending : RealFireConnect(t)
    \/ \E t \in Pending : BridgeConnected(t)
    \/ \E t \in Pending : BridgeFailed(t)
    \/ \E t \in Pending : RealFireWelcome(t)
    \/ \E t \in Pending : PicoExecTimeout(t)
    \/ \E t \in Pending : Running /\ FireExec(t)
    \/ \E t \in Pending : Running /\ FireCodeOutput(t)
    \/ \E t \in Pending : Running /\ FireTelemetry(t)
    \/ \E p \in bridges : BridgeOutput(p)
    \/ \E p \in bridges : BridgeMarker(p)

RealSpec == RealInit /\ [][RealNext]_vars

\* ---------------------------------------------------- the server process
\* The simulated server as a process: it takes untyped JSON, it can be sent
\* the termination signal, and it ends by process.exit or by an exception
\* nothing catches.
Up == last.src \notin {"uncaughtException", "exit"}

\* The callback given to server.close, waiting for the last connection to end.
ServerClosed == Timer("serverClose", 0, "", "", 0, "", 0)

ShuttingDown == ServerClosed \in Pending

\* uploadCode whose code field is a number.
RecvUploadCodeNonString(c) ==
    \E d \in DeviceInputs :
        Receive(c, "message", "uploadCode", d) /\ handleUploadCode(c, d, NonString)

\* process.on('SIGINT'): close is requested on every registered connection
\* whose transport is OPEN, and the listening server is closed.  One signal
\* is delivered.
Sigint ==
    /\ ~ShuttingDown
    /\ events < MaxEvents
    /\ events' = events + 1
    /\ readyState' = [c \in DOMAIN readyState |->
                        IF c \in activeConnections /\ readyState[c] = "open"
                        THEN "closing"
                        ELSE readyState[c]]
    /\ timers' = Schedule(timers, ServerClosed)
    /\ out' = <<>>
    /\ last' = Event("signal", "SIGINT", 0, "")
    /\ UNCHANGED <<connectionId, activeConnections, devices, now>>
    /\ UNCHANGED realVars

\* The callback of server.close runs once every connection has ended:
\* process.exit(0).
ProcessExit ==
    /\ ShuttingDown
    /\ \A c \in DOMAIN readyState : readyState[c] \in {"none", "closed"}
    /\ timers' = Cancel(timers, ServerClosed)
    /\ out' = <<>>
    /\ last' = Event("exit", "0", 0, "")
    /\ UNCHANGED <<connectionId, activeConnections, readyState, devices, now, events>>
    /\ UNCHANGED realVars

\* ws.on('message') on a transport whose 'error' has already unregistered the
\* connection: handleMessage finds no registry entry and returns.
RecvUnregistered(c) ==
    /\ readyState[c] = "closing"
    /\ c \notin activeConnections
    /\ events < MaxEvents
    /\ events' = events + 1
    /\ \E type \in {"connectDevice", "executeCode", "ping"} :
          last' = Event("message", type, c, "arduino-uno")
    /\ out' = <<>>
    /\ UNCHANGED <<connectionId, activeConnections, readyState, devices, timers, now>>
    /\ UNCHANGED realVars

\* ws.on('error') on a transport that has already closed: the same deletion
\* once more.
WsLateError(c) ==
    /\ readyState[c] = "closed"
    /\ events < MaxEvents
    /\ events' = events + 1
    /\ OnCloseBody(c)
    /\ out' = <<>>
    /\ last' = Event("error", "", c, "")
    /\ UNCHANGED <<connectionId, readyState, now>>
    /\ UNCHANGED realVars

ProcessNext ==
    \/ Up /\ ~ShuttingDown /\ Accept
    \/ \E c \in Clients : Up /\ WsClose(c)
    \/ \E c \in Clients : Up /\ WsError(c)
    \/ \E c \in Clients : Up /\ WsLateError(c)
    \/ Up /\ Tick
    \/ \E c \in Clients : Up /\ RecvUnregistered(c)
    \/ \E c \in Clients : Up /\ RecvUnparsable(c)
    \/ \E c \in Clients : Up /\ RecvUnknownType(c)
    \/ \E c \in Clients : Up /\ RecvGetDeviceList(c)
    \/ \E c \in Clients : Up /\ RecvConnectDevice(c)
    \/ \E c \in Clients : Up /\ RecvDisconnectDevice(c)
    \/ \E c \in Clients : Up /\ RecvSendData(c)
    \/ \E c \in Clients : Up /\ RecvGetDeviceStatus(c)
    \/ \E c \in Clients : Up /\ RecvPing(c)
    \/ \E c \in Clients : Up /\ RecvUploadCode(c)
    \/ \E c \in Clients : Up /\ RecvUploadCodeNonString(c)
    \/ \E c \in Clients : Up /\ RecvExecuteCode(c)
    \/ \E t \in Pending : Up /\ FireConnect(t)
    \/ \E t \in Pending : Up /\ FireEcho(t)
    \/ \E t \in Pending : Up /\ FireUpload(t)
    \/ \E t \in Pending : Up /\ FireChain(t)
    \/ \E t \in Pending : Up /\ FireExec(t)
    \/ \E t \in Pending : Up /\ FireWelcome(t)
    \/ \E t \in Pending : Up /\ FireCodeOutput(t)
    \/ \E t \in Pending : Up /\ FireTelemetry(t)
    \/ Up /\ Sigint
    \/ Up /\ ProcessExit

ProcessSpec == Init /\ [][ProcessNext]_vars

\* ------------------------------------------------------ executing programs
\* Clients that attach an arduino-uno and have programs executed on it, one
\* program at a time.
RecvConnectArduino(c) ==
    /\ Receive(c, "message", "connectDevice", "arduino-uno")
    /\ handleConnectDevice(c, "arduino-uno",
                           [peripheralId |-> NoValue, hasBaudrate |-> FALSE, baudrate |-> 0])

RecvExecuteProgram(c) ==
    /\ ~\E t \in Pending : t.kind = "exec"
    /\ Has(c, "arduino-uno")
    /\ \E p \in Programs :
         /\ Receive(c, "message", "executeCode", "arduino-uno")
         /\ handleExecuteCode(c, "arduino-uno", CodeText(p), timers)

ExecuteNext ==
    \/ Accept
    \/ \E c \in Clients : RecvConnectArduino(c)
    \/ \E t \in Pending : FireConnect(t)
    \/ \E c \in Clients : RecvExecuteProgram(c)
    \/ \E t \in Pending : FireExec(t)

ExecuteSpec == Init /\ [][ExecuteNext]_vars

\* ------------------------------------------------------ telemetry periods
\* Clients that attach and detach devices while the intervals run; the
\* period 1000 + Math.random() * 2000 is drawn from both ends of its window.
WindowSamples == {1000, 3000}

FireConnectSampled(t) ==
    /\ Fire(t, "connect")
    /\ \E iv \in WindowSamples : connectCompletion(t, iv)

TelemetryNext ==
    \/ Accept
    \/ \E c \in Clients : RecvConnectDevice(c)
    \/ \E c \in Clients : RecvDisconnectDevice(c)
    \/ \E t \in Pending : FireConnectSampled(t)
    \/ \E t \in Pending : FireTelemetry(t)

TelemetrySpec == Init /\ [][TelemetryNext]_vars

\* ------------------------------------------------- the Arduino device
\* Arduino.build as the link server's upload session drives it: a build, the
\* user's abort, the abort poll and the exit of arduino-cli.
serverVars ==
    <<connectionId, activeConnections, readyState, devices, timers, now,
      picoProcess, bridges, spawned, catalog>>

Settle(b, how, value) ==
    [b EXCEPT !.phase = "settled", !.settled = how, !.value = value]

\* An exit handler that treats a killed process as a failed build.
exitOutcome_KilledFails(outCode) ==
    CASE outCode = 0 -> [settled |-> "resolved", value |-> "Success"]
      [] outCode = 2 -> [settled |-> "rejected", value |-> "Sketch not found"]
      [] outCode = 3 -> [settled |-> "rejected",
                         value |-> "Invalid (argument for) commandline optiond"]
      [] outCode = 4 -> [settled |-> "rejected",
                         value |-> "Preference passed to --get-pref does not exist"]
      [] outCode \in {NullCode, 1} -> [settled |-> "rejected", value |-> "Build failed"]
      [] OTHER -> [settled |-> "rejected", value |-> "Unknown error"]

\* The switch of arduinoCli.on('exit').
exitOutcome(outCode) ==
    CASE outCode = NullCode -> [settled |-> "resolved", value |-> "Aborted"]
      [] outCode = 0 -> [settled |-> "resolved", value |-> "Success"]
      [] outCode = 1 -> [settled |-> "rejected", value |-> "Build failed"]
      [] outCode = 2 -> [settled |-> "rejected", value |-> "Sketch not found"]
      [] outCode = 3 -> [settled |-> "rejected",
                         value |-> "Invalid (argument for) commandline optiond"]
      [] outCode = 4 -> [settled |-> "rejected",
                         value |-> "Preference passed to --get-pref does not exist"]
      [] OTHER -> [settled |-> "rejected", value |-> "Unknown error"]

\* build(code) up to its first settlement or to the spawn of arduino-cli,
\* which arms the abort poll.  One build runs at a time.  The device decides
\* the PicoLib branch, the code the validation, the cache the cache hit;
\* whether the file can be written and whether compileWithFallback succeeds
\* is the environment's choice.
BuildStart ==
    /\ build.phase # "running"
    /\ events < MaxEvents
    /\ events' = events + 1
    /\ \E code \in BuildCodes, path \in BuildPaths :
         LET b == [build EXCEPT !.path = path, !.killed = FALSE, !.exitCode = NullCode,
                                !.settled = "none", !.value = "", !.used = Uses(path),
                                !.code = code]
         IN  /\ (path = "picoW") = isPicoWDevice(build)
             /\ path # "picoW" => ((path = "invalid") = ~validSyntax(code))
             /\ path \notin {"picoW", "invalid"}
                   => ((path = "cached") = getCachedBuild(build.cache, code, now))
             /\ last' = Event("build", path, 0, "")
             /\ CASE path = "picoW" ->
                       \/ build' = Compiled(Settle(b, "resolved", "Success"), now)
                       \/ build' = Settle(b, "rejected", "PicoLib error")
                  [] path = "invalid" ->
                       build' = Settle(b, "rejected", "Code validation failed")
                  [] path = "cached" ->
                       build' = Settle(b, "resolved", "Success")
                  [] path = "writeFailed" ->
                       build' = Settle(b, "rejected", "write error")
                  [] path = "fallback" ->
                       build' = Compiled(setCachedBuild(Settle(b, "resolved", "Success"),
                                                        code, now), now)
                  [] OTHER ->
                       build' = [b EXCEPT !.phase = "running", !.poll = TRUE]
    /\ out' = <<>>
    /\ UNCHANGED serverVars
    /\ UNCHANGED <<flash, upload>>

\* abortUpload()
AbortUpload ==
    /\ events < MaxEvents
    /\ events' = events + 1
    /\ build' = [build EXCEPT !.abort = TRUE]
    /\ last' = Event("abortUpload", "", 0, "")
    /\ out' = <<>>
    /\ UNCHANGED serverVars
    /\ UNCHANGED <<flash, upload>>

\* The setInterval callback listenAbortSignal: arduinoCli.kill() while the
\* abort flag is set.
AbortPoll ==
    /\ build.poll
    /\ build' = [build EXCEPT !.killed = @ \/ build.abort]
    /\ last' = Event("timer", "listenAbortSignal", 0, "")
    /\ out' = <<>>
    /\ UNCHANGED events
    /\ UNCHANGED serverVars
    /\ UNCHANGED <<flash, upload>>

\* arduinoCli.on('exit'): the poll is cleared and the promise settles.  The
\* code is null when a signal ended the process, the poll's kill() or any
\* other; a process that was sent the signal may still end with a code.
CliExit ==
    /\ build.phase = "running"
    /\ \E outCode \in ExitCodes :
         LET b == [Settle(build, exitOutcome(outCode).settled, exitOutcome(outCode).value)
                     EXCEPT !.poll = FALSE, !.exitCode = outCode]
         IN  build' = IF outCode = 0
                      THEN Compiled(setCachedBuild(b, build.code, now), now)
                      ELSE b
    /\ last' = Event("cliExit", "", 0, "")
    /\ out' = <<>>
    /\ UNCHANGED events
    /\ UNCHANGED serverVars
    /\ UNCHANGED <<flash, upload>>

\* Time passes between two calls (Date.now()).
ClockAdvance ==
    /\ events < MaxEvents
    /\ events' = events + 1
    /\ \E step \in ClockSteps : now' = now + step
    /\ last' = Event("tick", "", 0, "")
    /\ out' = <<>>
    /\ UNCHANGED <<connectionId, activeConnections, readyState, devices, timers,
                   picoProcess, bridges, spawned, catalog>>
    /\ UNCHANGED <<build, flash, upload>>

BuildNext ==
    \/ BuildStart
    \/ ClockAdvance
    \/ AbortUpload
    \/ AbortPoll
    \/ CliExit

\* Any device the link can hand to the constructor.
BuildInit ==
    /\ connectionId = 0
    /\ activeConnections = {}
    /\ readyState = [c \in Clients |-> "none"]
    /\ devices = [c \in Clients |-> EmptyMap]
    /\ timers = EmptyBag
    /\ now = 0
    /\ events = 0
    /\ last = Event("start", "", 0, "")
    /\ out = <<>>
    /\ picoProcess = 0
    /\ bridges = {}
    /\ spawned = 0
    /\ catalog = [status |-> "available", port |-> CatalogPort("raspberry-pico")]
    /\ \E f \in Fqbns, d \in DeviceIds, p \in PeripheralPaths :
         build = [NoBuild EXCEPT !.fqbn = f, !.deviceId = d, !.peripheralPath = p]
    /\ flash = NoFlash
    /\ upload = NoUpload

BuildSpec == BuildInit /\ [][BuildNext]_vars

\* ------------------------------------------------- the Arduino flash
\* Arduino.flash: the upload process, the abort poll, the exit and error
\* events of the process and the waits that precede some resolutions.
FlashExitCodes == {NullCode, 0, 1, 2}

\* resolve / reject of the flash promise: only the first call settles it.
SettleFlash(f, how, value) ==
    IF f.settled = "none" THEN [f EXCEPT !.settled = how, !.value = value] ELSE f

\* A device with or without config.postUploadDelay.
FlashInit ==
    /\ connectionId = 0
    /\ activeConnections = {}
    /\ readyState = [c \in Clients |-> "none"]
    /\ devices = [c \in Clients |-> EmptyMap]
    /\ timers = EmptyBag
    /\ now = 0
    /\ events = 0
    /\ last = Event("start", "", 0, "")
    /\ out = <<>>
    /\ picoProcess = 0
    /\ bridges = {}
    /\ spawned = 0
    /\ catalog = [status |-> "available", port |-> CatalogPort("raspberry-pico")]
    /\ build = NoBuild
    /\ \E delay \in BOOLEAN : flash = [NoFlash EXCEPT !.postUploadDelay = delay]
    /\ upload = NoUpload

\* flash(): spawn either throws, which the catch turns into a rejection, or
\* starts the process and arms the abort poll.
FlashStart ==
    /\ flash.proc # "running"
    /\ flash.wait = ""
    /\ events < MaxEvents
    /\ events' = events + 1
    /\ LET f == [NoFlash EXCEPT !.postUploadDelay = flash.postUploadDelay]
       IN  \E thrown \in BOOLEAN :
             flash' = IF thrown
                      THEN SettleFlash(f, "rejected", "spawn error")
                      ELSE [f EXCEPT !.proc = "running", !.poll = TRUE]
    /\ last' = Event("flash", "", 0, "")
    /\ out' = <<>>
    /\ UNCHANGED serverVars
    /\ UNCHANGED <<build, upload>>

\* The setInterval callback listenAbortSignal of flash: taskkill or
\* arduinoCli.kill() while the abort flag is set.
FlashAbortPoll ==
    /\ flash.poll
    /\ flash' = [flash EXCEPT !.killed = @ \/ build.abort]
    /\ last' = Event("timer", "listenAbortSignal", 0, "")
    /\ out' = <<>>
    /\ UNCHANGED events
    /\ UNCHANGED serverVars
    /\ UNCHANGED <<build, upload>>

\* The switch of arduinoCli.on('exit') in flash, after clearInterval.
flashExit(f, code, abort) ==
    CASE code = 0 ->
           IF f.postUploadDelay THEN [f EXCEPT !.wait = "Success"]
           ELSE SettleFlash(f, "resolved", "Success")
      [] code = 1 ->
           IF abort THEN [f EXCEPT !.wait = "Aborted"]
           ELSE SettleFlash(f, "rejected", "avrdude failed to flash")
      [] OTHER -> SettleFlash(f, "rejected", "Unknown upload error")

FlashExit ==
    /\ flash.proc = "running"
    /\ \E code \in FlashExitCodes :
         flash' = flashExit([flash EXCEPT !.proc = "exited", !.poll = FALSE,
                                          !.exitCode = code],
                            code, build.abort)
    /\ last' = Event("flashExit", "", 0, "")
    /\ out' = <<>>
    /\ UNCHANGED events
    /\ UNCHANGED serverVars
    /\ UNCHANGED <<build, upload>>

\* arduinoCli.on('error'): the process could not be spawned or signalled.
\* The exit event may still follow.
FlashProcError ==
    /\ flash.proc = "running"
    /\ ~flash.errored
    /\ flash' = SettleFlash([flash EXCEPT !.errored = TRUE, !.poll = FALSE],
                            "rejected", "process error")
    /\ last' = Event("flashError", "", 0, "")
    /\ out' = <<>>
    /\ UNCHANGED events
    /\ UNCHANGED serverVars
    /\ UNCHANGED <<build, upload>>

\* wait(ms).then(() => resolve(...))
FlashWait ==
    /\ flash.wait # ""
    /\ flash' = SettleFlash([flash EXCEPT !.wait = ""], "resolved", flash.wait)
    /\ last' = Event("timer", "wait", 0, "")
    /\ out' = <<>>
    /\ UNCHANGED events
    /\ UNCHANGED serverVars
    /\ UNCHANGED <<build, upload>>

FlashNext ==
    \/ FlashStart
    \/ AbortUpload
    \/ FlashAbortPoll
    \/ FlashExit
    \/ FlashProcError
    \/ FlashWait

FlashSpec == FlashInit /\ [][FlashNext]_vars

\* ------------------------------------------------- the Pico W upload
\* PicoCompiler.upload: the bridge process that executes the code, its close
\* event, the 5 s running check, the 30 s timeout and the fallback copy of
\* the file to the mounted Pico.  Neither timer is ever cleared.
CloseCodes == {NullCode, 0, 1}

\* resolve / reject of the upload promise: only the first call settles it.
SettleUpload(u, how) ==
    IF u.settled = "none" THEN [u EXCEPT !.settled = how] ELSE u

\* What is done after the promise has settled is remembered in late.
Act(u, what) ==
    IF u.settled = "none" THEN u ELSE [u EXCEPT !.late = @ \cup {what}]

\* picoProcess.kill()
KillBridge(u) == [Act(u, "kill") EXCEPT !.kills = @ + 1]

\* uploadFileToPico: cp to the mounted volume, then resolve('Success')
\* whether the copy worked or threw.
uploadFileToPico(u, copied) ==
    SettleUpload([Act(u, "copy") EXCEPT !.copy = IF copied THEN "done" ELSE "failed"],
                 "resolved")

\* upload(): with the bridge scripts present the process is spawned and both
\* timers are armed; without them the file is copied at once; a throw on the
\* way (reading the code file, spawning) rejects.
UploadStart ==
    /\ upload.phase = "idle"
    /\ events < MaxEvents
    /\ events' = events + 1
    /\ \/ upload' = [upload EXCEPT !.phase = "called", !.alive = TRUE,
                                   !.check = TRUE, !.timeout = TRUE]
       \/ \E copied \in BOOLEAN :
            upload' = uploadFileToPico([upload EXCEPT !.phase = "called"], copied)
       \/ upload' = SettleUpload([upload EXCEPT !.phase = "called"], "rejected")
    /\ last' = Event("upload", "", 0, "")
    /\ out' = <<>>
    /\ UNCHANGED serverVars
    /\ UNCHANGED <<build, flash>>

\* picoProcess.stdout.on('data'): the text that the running check looks for.
UploadStdout ==
    /\ upload.alive
    /\ ~upload.output
    /\ upload' = [upload EXCEPT !.output = TRUE]
    /\ last' = Event("uploadStdout", "", 0, "")
    /\ out' = <<>>
    /\ UNCHANGED events
    /\ UNCHANGED serverVars
    /\ UNCHANGED <<build, flash>>

\* picoProcess.stderr.on('data')
UploadStderr ==
    /\ upload.alive
    /\ ~upload.hasError
    /\ upload' = [upload EXCEPT !.hasError = TRUE]
    /\ last' = Event("uploadStderr", "", 0, "")
    /\ out' = <<>>
    /\ UNCHANGED events
    /\ UNCHANGED serverVars
    /\ UNCHANGED <<build, flash>>

\* picoProcess.on('close'): success with code 0 and a silent stderr, the
\* fallback copy otherwise.  A process ended by a signal closes with a null
\* code.
UploadClose ==
    /\ upload.alive
    /\ \E code \in CloseCodes, copied \in BOOLEAN :
         LET u == [upload EXCEPT !.alive = FALSE, !.closeCode = code]
         IN  upload' = IF code = 0 /\ ~upload.hasError
                          THEN SettleUpload(u, "resolved")
                          ELSE uploadFileToPico(u, copied)
    /\ last' = Event("uploadClose", "", 0, "")
    /\ out' = <<>>
    /\ UNCHANGED events
    /\ UNCHANGED serverVars
    /\ UNCHANGED <<build, flash>>

\* The 5 s callback: when the output shows the code running, the process is
\* killed and the promise resolved.
UploadCheck ==
    /\ upload.check
    /\ LET u == [upload EXCEPT !.check = FALSE]
       IN  upload' = IF upload.output
                     THEN SettleUpload(KillBridge(u), "resolved")
                     ELSE u
    /\ last' = Event("timer", "uploadCheck", 0, "")
    /\ out' = <<>>
    /\ UNCHANGED events
    /\ UNCHANGED serverVars
    /\ UNCHANGED <<build, flash>>

\* The 30 s callback, which comes due after the 5 s one: the process is
\* killed and the file copied.
UploadTimeout ==
    /\ upload.timeout
    /\ ~upload.check
    /\ \E copied \in BOOLEAN :
         upload' = uploadFileToPico(KillBridge([upload EXCEPT !.timeout = FALSE]), copied)
    /\ last' = Event("timer", "uploadTimeout", 0, "")
    /\ out' = <<>>
    /\ UNCHANGED events
    /\ UNCHANGED serverVars
    /\ UNCHANGED <<build, flash>>

UploadNext ==
    \/ UploadStart
    \/ UploadStdout
    \/ UploadStderr
    \/ UploadClose
    \/ UploadCheck
    \/ UploadTimeout

UploadSpec == Init /\ [][UploadNext]_vars

\* ----------------------------------------------------------------- claims
Closed(c) == readyState[c] \in {"closing", "closed"}

FramesOf(o) == {o[i] : i \in DOMAIN o}

TimerRan(e, kinds) == e.src = "timer" /\ e.kind \in kinds

\* The message kinds that name a device.
DeviceRequests ==
    {"connectDevice", "disconnectDevice", "getDeviceStatus", "uploadCode", "executeCode"}

\* The eight cases of handleMessage's switch.
SupportedTypes ==
    {"getDeviceList", "connectDevice", "disconnectDevice", "sendData", "getDeviceStatus",
     "ping", "uploadCode", "executeCode"}

\* C1: once a connection's transport has closed (or failed), none of its
\* telemetry timers is armed any more and no frame is written to it.
C1_CloseCancelsTelemetry ==
    \A c \in Clients :
        Closed(c) =>
            /\ \A t \in Pending : ~(t.kind = "telemetry" /\ t.client = c)
            /\ \A f \in FramesOf(out) : f.to # c

\* C2: a delayed completion of connectDevice, sendData, uploadCode (and its
\* chained execute) or executeCode that comes due after its connection has
\* closed writes no frame and changes no device map.
C2_ClosedCompletionsDropped ==
    [][ (TimerRan(last', {"connect", "echo", "upload", "chain", "exec"})
            /\ Closed(last'.client))
        => (out' = <<>> /\ devices' = devices) ]_vars

\* C3: a delayed completion (upload, chained execute, execute, echo, welcome
\* action) that comes due on an open connection after its device has been
\* disconnected writes no frame at all.
C3_StaleCompletionsSilent ==
    (TimerRan(last, {"upload", "chain", "exec", "echo", "welcome", "codeOutput"})
        /\ readyState[last.client] = "open"
        /\ ~Has(last.client, last.deviceId))
    => out = <<>>

\* C4: when a connectDevice completion comes due and the device is already
\* attached to that connection, it answers with the one "ya esta conectado"
\* error frame, leaves every device map as it is (same connectedAt,
\* peripheralId and baudrate) and arms no telemetry timer or welcome action.
C4_DuplicateConnectRejected ==
    [][ (TimerRan(last', {"connect"}) /\ Has(last'.client, last'.deviceId))
        => /\ Len(out') = 1
           /\ out'[1].type = "error"
           /\ out'[1].to = last'.client
           /\ out'[1].note = MsgAlready(last'.deviceId)
           /\ devices' = devices
           /\ timers' \sqsubseteq timers
           /\ BagCardinality(timers') = BagCardinality(timers) - 1 ]_vars

C4_Witness ==
    /\ TimerRan(last, {"connect"})
    /\ Len(out) = 1
    /\ out[1].note = MsgAlready(last.deviceId)
    /\ out[1].delivered
    /\ Has(last.client, last.deviceId)
    /\ getTime(devices[last.client][last.deviceId].connectedAt) < now

\* C5: a request naming a deviceId outside the catalog is answered with one
\* error frame, and no session or timer ever exists for such an id.
C5_UnknownDeviceRejected ==
    /\ \A c \in Clients : DOMAIN devices[c] \subseteq CatalogIds
    /\ \A t \in Pending : t.deviceId \in CatalogIds
    /\ (last.src = "message" /\ last.kind \in DeviceRequests
            /\ last.deviceId \notin CatalogIds)
        => (Len(out) = 1 /\ out[1].type = "error" /\ out[1].to = last.client)

C8_ParseFailureChangesNothing ==
    [][ last'.src = "unparsable"
        => /\ Len(out') = 1
           /\ out'[1].type = "error"
           /\ out'[1].to = last'.client
           /\ out'[1].note = MsgInvalid
           /\ UNCHANGED <<connectionId, activeConnections, readyState, devices, timers>> ]_vars

C8_Witness ==
    /\ last.src = "unparsable"
    /\ out[1].delivered
    /\ devices[last.client] # EmptyMap
    /\ timers # EmptyBag

\* C9: a message whose type is none of the eight supported kinds (or is
\* missing) is answered with one error frame naming that type, and nothing
\* else changes.
C9_UnknownTypeChangesNothing ==
    [][ (last'.src = "message" /\ last'.kind \notin SupportedTypes)
        => /\ Len(out') = 1
           /\ out'[1].type = "error"
           /\ out'[1].to = last'.client
           /\ out'[1].note = MsgUnsupported(last'.kind)
           /\ UNCHANGED <<connectionId, activeConnections, readyState, devices, timers>> ]_vars

C9_Witness ==
    /\ last.src = "message"
    /\ last.kind = NoValue
    /\ out[1].delivered
    /\ devices[last.client] # EmptyMap
    /\ timers # EmptyBag

\* C7: an accepted uploadCode produces exactly one codeUploaded frame with
\* the code's length and then, through the automatic execution and with no
\* executeCode from the client, exactly one codeExecuted frame for the same
\* device and code, as long as the session and the connection stay alive.
\* Each stage of the pipeline hands over to exactly one next stage, the two
\* frames are written by those stages only, and under the event loop's
\* fairness no stage of a live session waits forever.
StagePending(kind, c, d, code) ==
    \E t \in Pending : t.kind = kind /\ t.client = c /\ t.deviceId = d /\ t.code = code

StageFrame(type, c, d, code) ==
    \E f \in FramesOf(out) :
        f.type = type /\ f.to = c /\ f.deviceId = d /\ f.code = code /\ f.delivered

Alive(c, d) == c \in activeConnections /\ Has(c, d)

C7_StageSteps ==
    /\ TimerRan(last', {"upload"}) =>
         \E t \in Pending :
            /\ t.kind = "upload" /\ t.client = last'.client /\ t.deviceId = last'.deviceId
            /\ Len(out') = 1
            /\ out'[1].type = "codeUploaded"
            /\ out'[1].to = t.client
            /\ out'[1].deviceId = t.deviceId
            /\ out'[1].n = Len(t.code)
            /\ out'[1].code = t.code
            /\ timers' = Schedule(Cancel(timers, t),
                                  Timer("chain", t.client, t.deviceId, "", 0, t.code, 0))
    /\ (TimerRan(last', {"chain"}) /\ Alive(last'.client, last'.deviceId)) =>
         \E t \in Pending :
            /\ t.kind = "chain" /\ t.client = last'.client /\ t.deviceId = last'.deviceId
            /\ out' = <<>>
            /\ timers' = Schedule(Cancel(timers, t),
                                  Timer("exec", t.client, t.deviceId, "", 0, t.code, 0))
    /\ TimerRan(last', {"exec"}) =>
         \E t \in Pending :
            /\ t.kind = "exec" /\ t.client = last'.client /\ t.deviceId = last'.deviceId
            /\ Len(out') = 1
            /\ out'[1].type = "codeExecuted"
            /\ out'[1].to = t.client
            /\ out'[1].deviceId = t.deviceId
            /\ out'[1].code = t.code
            /\ timers' = Cancel(timers, t)
    /\ \A f \in FramesOf(out') :
         /\ f.type = "codeUploaded" => TimerRan(last', {"upload"})
         /\ f.type = "codeExecuted" => TimerRan(last', {"exec"})
    /\ (last'.src = "message" /\ last'.kind = "uploadCode") =>
         \A t \in BagToSet(timers') :
            t.kind \in {"chain", "exec"} => CopiesIn(t, timers') = CopiesIn(t, timers)

\* No upload, chained execute or execute of a live session is waiting.
Drained ==
    \A t \in Pending :
        t.kind \in {"upload", "chain", "exec"} => ~Alive(t.client, t.deviceId)

OwnTimers(bag, b) ==
    [t \in {x \in BagToSet(bag) : x.client = b} |-> CopiesIn(t, bag)]

OwnPlainTimers(bag, b) ==
    [t \in {x \in BagToSet(bag) :
               x.client = b /\ x.kind \notin {"picoExec", "picoInject", "picoStale"}}
        |-> CopiesIn(t, bag)]

\* C10: connections are isolated.  A step that belongs to one connection (its
\* accept, close or error, a request on it, one of its own callbacks) leaves
\* every other connection's device map and pending callbacks as they were and
\* writes no frame to another connection.  A device enters a connection's map
\* only in that connection's own connectDevice completion.  A chunk written
\* by the bridge process belongs to no connection: it changes no device map
\* and no timer other than the executePicoCode waits it settles, and the only
\* frames it puts on a connection are a picoOutput when that connection has
\* raspberry-pico attached and the codeExecuted of an execute that connection
\* is waiting for.
C10_ConnectionsIsolated ==
    [][ \A b \in Clients :
          /\ b # last'.client => devices'[b] = devices[b]
          /\ b # last'.client => OwnPlainTimers(timers', b) = OwnPlainTimers(timers, b)
          /\ (b # last'.client /\ last'.src # "bridge")
                => OwnTimers(timers', b) = OwnTimers(timers, b)
          /\ \A d \in DOMAIN devices'[b] \ DOMAIN devices[b] :
                /\ last'.client = b
                /\ last'.deviceId = d
                /\ last'.kind \in {"connect", "bridgeConnect"}
          /\ \A f \in FramesOf(out') :
                (f.to = b /\ b # last'.client)
                  => \/ /\ f.type = "picoOutput"
                        /\ b \in activeConnections
                        /\ PicoId \in DOMAIN devices[b]
                     \/ /\ f.type = "codeExecuted"
                        /\ last'.src = "bridge"
                        /\ \E t \in Pending :
                             /\ t.client = b
                             /\ t.kind = "picoExec"
                             /\ CopiesIn(t, timers') < CopiesIn(t, timers) ]_vars

\* The bridge has written a chunk while one registered connection has
\* raspberry-pico attached and another has only arduino-uno: the first got the
\* picoOutput frame, the second got nothing.
C10_Witness ==
    /\ last.src = "bridge"
    /\ last.kind = "picoOutput"
    /\ \E a \in activeConnections, b \in activeConnections :
         /\ a # b
         /\ Has(a, PicoId)
         /\ ~Has(b, PicoId)
         /\ Has(b, "arduino-uno")
         /\ \E f \in FramesOf(out) : f.to = a /\ f.type = "picoOutput"
         /\ \A f \in FramesOf(out) : f.to # b

\* C11: the step that accepts a connection writes exactly one frame, the
\* welcome carrying the new clientId, and no frame was written to that
\* connection before; the clientId is the counter's next value, larger than
\* every id handed out so far whether or not its connection has closed, and
\* the counter never goes back.
C11_WelcomeAndFreshIds ==
    [][ /\ connectionId' >= connectionId
        /\ \A f \in FramesOf(out') :
             readyState[f.to] = "none" => (f.type = "welcome" /\ f.n = f.to)
        /\ last'.src = "connection"
             => /\ out' = << out'[1] >>
                /\ out'[1].type = "welcome"
                /\ out'[1].to = last'.client
                /\ out'[1].n = last'.client
                /\ out'[1].delivered
                /\ last'.client = connectionId'
                /\ connectionId' = connectionId + 1
                /\ readyState[last'.client] = "none"
                /\ \A c \in Clients : readyState[c] # "none" => c < last'.client ]_vars

\* A connection is accepted after the only earlier one has closed: it gets
\* clientId 2, not the freed 1.
C11_Witness ==
    /\ last.src = "connection"
    /\ last.client = 2
    /\ readyState[1] = "closed"
    /\ activeConnections = {2}
    /\ out[1].type = "welcome"
    /\ out[1].n = 2

\* C12: getDeviceStatus for an attached device answers with one deviceStatus
\* frame carrying status 'connected', the session's connectedAt and an uptime
\* equal to the clock minus connectedAt, which is not negative.  The clock
\* never goes back and a session's record does not change while the device
\* stays attached, so across polls of one session connectedAt is the same and
\* uptime does not decrease.
C12_StatusReportsUptime ==
    [][ /\ now' >= now
        /\ \A c \in Clients : \A d \in DOMAIN devices[c] \cap DOMAIN devices'[c] :
             devices'[c][d] = devices[c][d]
        /\ (/\ last'.src = "message"
            /\ last'.kind = "getDeviceStatus"
            /\ Has(last'.client, last'.deviceId))
             => /\ Len(out') = 1
                /\ out'[1].type = "deviceStatus"
                /\ out'[1].to = last'.client
                /\ out'[1].deviceId = last'.deviceId
                /\ out'[1].note = "connected"
                /\ out'[1].at = devices[last'.client][last'.deviceId].connectedAt
                /\ out'[1].n = now' - getTime(out'[1].at)
                /\ out'[1].n >= 0 ]_vars

\* An attached device is polled 999 ms after it was attached.
C12_Witness ==
    /\ last.src = "message"
    /\ last.kind = "getDeviceStatus"
    /\ Len(out) = 1
    /\ out[1].type = "deviceStatus"
    /\ out[1].delivered
    /\ getTime(out[1].at) + 999 = now
    /\ out[1].n = 999

\* C13: every deviceList frame lists each catalog device once, with count equal
\* to the catalog size, and an entry's connected flag is set exactly when the
\* connection the frame is written to has that device in its own device map
\* when the frame is written, whatever other connections have attached.
C13_DeviceListReflectsOwnSessions ==
    [][ \A f \in FramesOf(out') :
          f.type = "deviceList"
            => /\ DOMAIN f.devices = CatalogIds
               /\ f.n = Cardinality(CatalogIds)
               /\ \A d \in CatalogIds : f.devices[d] <=> d \in DOMAIN devices'[f.to] ]_vars

\* A connection with nothing attached gets its list, all flags clear, while
\* another registered connection has arduino-uno attached.
C13_Witness ==
    /\ Len(out) = 1
    /\ out[1].type = "deviceList"
    /\ out[1].delivered
    /\ \A d \in CatalogIds : ~out[1].devices[d]
    /\ \E b \in activeConnections : b # out[1].to /\ Has(b, "arduino-uno")

\* The welcome action waiting for connection c's arduino-uno.
ArduinoWelcome(c) == Timer("welcome", c, "arduino-uno", "", 0, "", 0)

C14_GreetingSteps ==
    /\ (/\ TimerRan(last', {"connect"})
        /\ last'.deviceId = "arduino-uno"
        /\ ~Has(last'.client, "arduino-uno"))
         => /\ Len(out') = 1
            /\ out'[1].type = "deviceConnected"
            /\ out'[1].to = last'.client
            /\ out'[1].deviceId = "arduino-uno"
            /\ out'[1].capabilities = <<"digital", "analog", "pwm", "serial">>
            /\ out'[1].pins.digital = <<2, 3, 4, 5, 6, 7, 8, 9, 10, 11, 12, 13>>
            /\ out'[1].pins.analog = <<"A0", "A1", "A2", "A3", "A4", "A5">>
            /\ out'[1].pins.pwm = <<3, 5, 6, 9, 10, 11>>
            /\ last'.client \in activeConnections
                 => CopiesIn(ArduinoWelcome(last'.client), timers')
                      = CopiesIn(ArduinoWelcome(last'.client), timers) + 1
    /\ (TimerRan(last', {"welcome"}) /\ last'.deviceId = "arduino-uno")
         => /\ Len(out') = 1
            /\ out'[1].type = "deviceAction"
            /\ out'[1].to = last'.client
            /\ out'[1].deviceId = "arduino-uno"
            /\ out'[1].note = "led_blink"
            /\ out'[1].pin = "D13"
    /\ \A f \in FramesOf(out') :
         f.type = "deviceAction" => (TimerRan(last', {"welcome"}) /\ f.to = last'.client)
    /\ \A c \in Clients :
         CopiesIn(ArduinoWelcome(c), timers') > CopiesIn(ArduinoWelcome(c), timers)
           => \E f \in FramesOf(out') :
                f.type = "deviceConnected" /\ f.to = c /\ f.deviceId = "arduino-uno"

\* No connect completion and no welcome action for arduino-uno is waiting.
Greeted ==
    \A t \in Pending :
        t.kind \in {"connect", "welcome"} => t.deviceId # "arduino-uno"

\* C14: the completion of connectDevice arduino-uno on a connection that does
\* not have it attached writes deviceConnected with the catalog's capabilities
\* and pins and schedules the welcome action; the welcome action writes
\* deviceAction led_blink on pin D13; a deviceAction is only ever written by a
\* welcome action, and a welcome action is only ever scheduled by the step
\* that wrote deviceConnected, so it never comes first; and no completion or
\* welcome action waits forever.
C14_ArduinoGreeting ==
    /\ [][C14_GreetingSteps]_vars
    /\ []<>Greeted

\* The welcome action of an attached arduino-uno has run on an open connection.
C14_Witness ==
    /\ TimerRan(last, {"welcome"})
    /\ last.deviceId = "arduino-uno"
    /\ Has(last.client, "arduino-uno")
    /\ out[1].type = "deviceAction"
    /\ out[1].pin = "D13"
    /\ out[1].delivered

\* The callbacks waiting for connection c's raspberry-pico.
PicoWelcome(c) == Timer("welcome", c, "raspberry-pico", "", 0, "", 0)
PicoCodeOutput(c) == Timer("codeOutput", c, "raspberry-pico", "", 0, "", 0)

Added(t) == CopiesIn(t, timers') = CopiesIn(t, timers) + 1
Removed(t) == CopiesIn(t, timers') = CopiesIn(t, timers) - 1
Wrote(c, type) ==
    \E f \in FramesOf(out') : f.type = type /\ f.to = c /\ f.deviceId = "raspberry-pico"

C15_PicoSteps ==
    /\ (last'.src = "message" /\ last'.kind = "getDeviceList")
         => /\ Len(out') = 1
            /\ out'[1].type = "deviceList"
            /\ out'[1].to = last'.client
    /\ (/\ TimerRan(last', {"connect"})
        /\ last'.deviceId = "raspberry-pico"
        /\ ~Has(last'.client, "raspberry-pico"))
         => /\ Len(out') = 1
            /\ out'[1].type = "deviceConnected"
            /\ out'[1].to = last'.client
            /\ out'[1].deviceId = "raspberry-pico"
            /\ last'.client \in activeConnections => Added(PicoWelcome(last'.client))
    /\ (TimerRan(last', {"welcome"}) /\ last'.deviceId = "raspberry-pico")
         => /\ Len(out') = 1
            /\ out'[1].type = "codeInjected"
            /\ out'[1].to = last'.client
            /\ out'[1].deviceId = "raspberry-pico"
            /\ out'[1].code = InjectedScript
            /\ Removed(PicoWelcome(last'.client))
            /\ Added(PicoCodeOutput(last'.client))
    /\ TimerRan(last', {"codeOutput"})
         => /\ Len(out') = 1
            /\ out'[1].type = "codeOutput"
            /\ out'[1].to = last'.client
            /\ out'[1].deviceId = "raspberry-pico"
            /\ out'[1].note = CannedOutput
            /\ Removed(PicoCodeOutput(last'.client))
    /\ \A f \in FramesOf(out') :
         /\ f.type = "deviceList" => (last'.src = "message" /\ last'.kind = "getDeviceList")
         /\ f.type = "deviceConnected" => TimerRan(last', {"connect"})
         /\ f.type = "codeInjected" => TimerRan(last', {"welcome"})
         /\ f.type = "codeOutput" => TimerRan(last', {"codeOutput"})
    /\ \A c \in Clients :
         /\ CopiesIn(PicoWelcome(c), timers') > CopiesIn(PicoWelcome(c), timers)
              => Wrote(c, "deviceConnected")
         /\ CopiesIn(PicoCodeOutput(c), timers') > CopiesIn(PicoCodeOutput(c), timers)
              => Wrote(c, "codeInjected")

\* No completion, welcome action or output callback for raspberry-pico is waiting.
PicoGreeted ==
    \A t \in Pending :
        t.kind \in {"connect", "welcome", "codeOutput"} => t.deviceId # "raspberry-pico"

DomainErrors ==
    UNION {{MsgNotFound(d), MsgAlready(d), MsgNotConnected(d)} : d \in DeviceInputs}

DomainErrorWritten == \E f \in FramesOf(out') : f.type = "error" /\ f.note \in DomainErrors

C16_DomainErrorStep ==
    DomainErrorWritten =>
        /\ Len(out') = 1
        /\ out'[1].to = last'.client
        /\ activeConnections' = activeConnections
        /\ readyState' = readyState
        /\ devices' = devices
        /\ last'.src = "message" =>
              /\ last'.client \in activeConnections'
              /\ timers' = timers
        /\ last'.src # "message" =>
              /\ TimerRan(last', {"connect", "chain"})
              /\ out'[1].note = IF last'.kind = "connect"
                                THEN MsgAlready(last'.deviceId)
                                ELSE MsgNotConnected(last'.deviceId)
              /\ \E t \in Pending :
                    /\ t.kind = last'.kind
                    /\ t.client = last'.client
                    /\ t.deviceId = last'.deviceId
                    /\ timers' = timers (-) SetToBag({t})

\* C16: a step of the simulated server that writes a domain error (device not
\* found, device not attached, device already attached) writes that one frame
\* to the requesting connection and changes nothing else: the registry, the
\* transports and every device map are as before, and so are the pending
\* timers, except that an error written by a callback (the "already attached"
\* of a connectDevice completion, the "not attached" of an upload's automatic
\* run) consumes that callback.
C16_DomainErrorsNotFatal == [][C16_DomainErrorStep]_vars

\* An open connection with a session and its telemetry interval was told that
\* another device is not attached.
C16_Witness ==
    /\ last.src = "message"
    /\ last.kind = "disconnectDevice"
    /\ Len(out) = 1
    /\ out[1].type = "error"
    /\ out[1].note = MsgNotConnected(last.deviceId)
    /\ out[1].delivered
    /\ last.client \in activeConnections
    /\ devices[last.client] # EmptyMap
    /\ \E t \in Pending : t.kind = "telemetry" /\ t.client = last.client

\* C17: no client input and no timer firing ends the server with an exception
\* nothing catches.
C17_NeverCrashes == last.src # "uncaughtException"

\* The outputs a program of at most MaxLines lines can have, line by line.
OutputSeqs == UNION {[1..n -> {"hello", "ok", MarkLedOn}] : n \in 0..MaxLines}

HasLine(output, line) ==
    \E ls \in OutputSeqs :
        /\ join(ls, "\n") = output
        /\ \E i \in DOMAIN ls : ls[i] = line

\* C18: the codeExecuted frame of the simulated server, for code with the
\* statement print('hello') on a line of its own, has an output with the line
\* hello; for code that contains led.on(), an output with the LED encendido
\* marker; for code with no print statement outside comments and no idiom, the
\* empty output.
C18_SimulatedOutput ==
    \A f \in FramesOf(out) :
        f.type = "codeExecuted" =>
            \A p \in Programs :
                CodeText(p) = f.code =>
                    /\ (\E i \in DOMAIN p : ~p[i].comment /\ p[i].text = "print('hello')")
                          => HasLine(f.note, "hello")
                    /\ (\E i \in DOMAIN p : p[i].text = "led.on()")
                          => HasLine(f.note, MarkLedOn)
                    /\ (\A i \in DOMAIN p :
                            \/ p[i].text = "x = 1"
                            \/ p[i].comment /\ p[i].text # "led.on()")
                          => f.note = ""

\* A program that prints hello and switches the led on has been executed.
C18_Witness ==
    /\ TimerRan(last, {"exec"})
    /\ Len(out) = 1
    /\ out[1].type = "codeExecuted"
    /\ out[1].code = "print('hello')\nled.on()"
    /\ out[1].note = "hello\nLED encendido"
    /\ out[1].delivered

C19_UnregisterSteps ==
    /\ last'.src \in {"close", "error"}
         => /\ activeConnections' = activeConnections \ {last'.client}
            /\ last'.client \notin activeConnections => activeConnections' = activeConnections
            /\ devices' = devices
            /\ timers' = timers
            /\ out' = <<>>
            /\ Up'
    /\ (last'.src = "message" /\ last'.client \notin activeConnections)
         => /\ out' = <<>>
            /\ UNCHANGED <<connectionId, activeConnections, readyState, devices, timers, now>>
            /\ Up'

\* C19: a close or error event removes its connection from the registry and
\* touches nothing else, and when the connection is already gone (an error
\* before the close, or the reverse) the registry stays as the first removal
\* left it; a message dispatched for a connection that is not registered sends
\* no frame, changes no state and leaves the process running.
C19_UnregisterIdempotent == [][C19_UnregisterSteps]_vars

\* The first connection closed, which unregistered it, and its transport has
\* now reported an error, which unregistered it once more.
C19_Witness ==
    /\ last.src = "error"
    /\ last.client = 1
    /\ connectionId = 1
    /\ readyState[1] = "closed"
    /\ activeConnections = {}


\* C20: the server process ends only by the process.exit of the termination
\* signal's handler, after that handler has requested a close on every
\* registered connection whose transport was open; no message, close or timer
\* firing ends it.
C20_ExitsOnlyOnSignal ==
    [][ (Up /\ ~Up')
          => /\ last'.src = "exit"
             /\ ShuttingDown
             /\ \A c \in activeConnections : readyState[c] # "open" ]_vars


\* The number of telemetry intervals armed in bag for connection c's device d.
Armed(bag, c, d) ==
    LET S == {t \in BagToSet(bag) : t.kind = "telemetry" /\ t.client = c /\ t.deviceId = d}
        RECURSIVE Sum(_)
        Sum(T) == IF T = {} THEN 0
                  ELSE LET t == CHOOSE x \in T : TRUE
                       IN  CopiesIn(t, bag) + Sum(T \ {t})
    IN  Sum(S)

ArmedTelemetry(c, d) == Armed(timers, c, d)

\* C21: for every registered connection and every device id, at most one
\* telemetry interval is armed, and one is armed only while the connection
\* holds a session for that device.
C21_OneTelemetryTimerPerSession ==
    \A c \in activeConnections : \A d \in DeviceInputs :
        /\ ArmedTelemetry(c, d) <= 1
        /\ ArmedTelemetry(c, d) > 0 => Has(c, d)


\* C22: whenever a session's telemetry interval can fire, its firing can
\* leave it armed with any period of the window, not only the one it had.
C22_TelemetryResampled ==
    \A t \in Pending :
        (t.kind = "telemetry" /\ Has(t.client, t.deviceId)) =>
            \A iv \in WindowSamples :
                ENABLED (/\ FireTelemetry(t)
                         /\ CopiesIn([t EXCEPT !.interval = iv], timers') > 0)


\* C23: when a connectDevice completion has just attached a device while a
\* second completion for the same device and connection was pending beside
\* it, that second completion can still complete as a successful connect.
C23_BothConnectsSucceed ==
    \A t \in Pending :
        (/\ t.kind = "connect"
         /\ TimerRan(last, {"connect"})
         /\ last.client = t.client
         /\ last.deviceId = t.deviceId
         /\ Len(out) = 1
         /\ out[1].type = "deviceConnected")
        => ENABLED (/\ FireConnect(t)
                    /\ Len(out') = 1
                    /\ out'[1].type = "deviceConnected")


\* The pipeline stages in flight for connection c's device d.
StagesInFlight(c, d) ==
    LET S == {t \in Pending : /\ t.kind \in {"upload", "chain", "exec"}
                              /\ t.client = c
                              /\ t.deviceId = d}
        RECURSIVE Sum(_)
        Sum(T) == IF T = {} THEN 0
                  ELSE LET t == CHOOSE x \in T : TRUE
                       IN  CopiesIn(t, timers) + Sum(T \ {t})
    IN  Sum(S)

\* C24: for every session of a registered connection at most one pipeline
\* stage (upload delay, wait for the automatic run, execute delay) is in
\* flight.
C24_OneStageInFlight ==
    \A c \in activeConnections : \A d \in DOMAIN devices[c] : StagesInFlight(c, d) <= 1


\* C25: when the 10 s timeout of a bridge execute comes due, the request is
\* answered with the one timeout error frame, the bridge process it waited
\* on is killed, and no listener of that execute is left on the process.
C25_TimeoutKillsBridge ==
    [][ (last'.src = "timer" /\ last'.kind = "picoExec")
          => /\ Len(out') = 1
             /\ out'[1].type = "error"
             /\ out'[1].to = last'.client
             /\ out'[1].note = MsgExecTimeout
             /\ \E t \in Pending :
                   /\ t.kind = "picoExec"
                   /\ t.client = last'.client
                   /\ CopiesIn(t, timers') < CopiesIn(t, timers)
                   /\ t.proc \notin bridges'
                   /\ CopiesIn(Stale(t), timers') <= CopiesIn(Stale(t), timers) ]_vars


\* C26: once the scan at startup is over, no step of the server changes a
\* field of a device descriptor.
C26_CatalogImmutable ==
    [][ last'.kind # "startupScan" => catalog' = catalog ]_vars


\* What C27 says of connection c in one step.
C27_SessionStep(c) ==
    /\ \A d \in DOMAIN devices'[c] : devices'[c][d].status = "connected"
    /\ (last'.src = "message" /\ last'.kind = "getDeviceStatus" /\ last'.client = c
          /\ ~Has(c, last'.deviceId))
         => (Len(out') = 1 /\ out'[1].type = "error")
    /\ \A f \in FramesOf(out') :
         (f.type = "deviceList" /\ f.to = c)
           => \A d \in CatalogIds : ~Has(c, d) => ~f.devices[d]
    /\ \A d \in DeviceInputs :
         (~Has(c, d) /\ d \in DOMAIN devices'[c])
           => /\ TimerRan(last', {"connect"})
              /\ last'.client = c
              /\ last'.deviceId = d
              /\ Len(out') = 1
              /\ out'[1].type = "deviceConnected"
              /\ out'[1].to = c
              /\ out'[1].deviceId = d
              /\ Armed(timers', c, d) = Armed(timers, c, d) + 1

\* C27: every session in a device map has status connected; while a device
\* is not attached getDeviceStatus answers with an error and deviceList
\* reports it as not connected; and a session comes into existence only in a
\* connectDevice completion, together with its deviceConnected frame and its
\* telemetry interval.
C27_SessionAppearsComplete == [][ \A c \in Clients : C27_SessionStep(c) ]_vars


Welcome(c, d) == Timer("welcome", c, d, "", 0, "", 0)

WelcomesAdded(c, d) == CopiesIn(Welcome(c, d), timers') - CopiesIn(Welcome(c, d), timers)

\* The frame a welcome action of device class d writes.
WelcomeFrameOf(d, f) ==
    IF d = "raspberry-pico" THEN f.type = "codeInjected"
    ELSE f.type = "deviceAction"
         /\ f.note = (IF d = "arduino-uno" THEN "led_blink" ELSE "led_pattern")

C28_WelcomeSteps ==
    /\ (TimerRan(last', {"connect"}) /\ Len(out') = 1 /\ out'[1].type = "deviceConnected")
         => /\ WelcomesAdded(last'.client, last'.deviceId) = 1
            /\ \A c \in Clients : \A d \in DeviceInputs :
                 (c # last'.client \/ d # last'.deviceId) => WelcomesAdded(c, d) = 0
    /\ (Len(out') = 1 /\ out'[1].type = "error"
          /\ out'[1].note \in {MsgNotFound(last'.deviceId), MsgAlready(last'.deviceId)})
         => \A c \in Clients : \A d \in DeviceInputs : WelcomesAdded(c, d) = 0
    /\ TimerRan(last', {"welcome"})
         => /\ Len(out') = 1
            /\ WelcomeFrameOf(last'.deviceId, out'[1])
            /\ WelcomesAdded(last'.client, last'.deviceId) = -1

\* C28: the completion of a connectDevice that answers deviceConnected
\* schedules exactly one welcome action, for that connection and device, and
\* the action is the one of the device's class (arduino-uno led_blink,
\* microbit-v2 led_pattern, raspberry-pico code injection); a connectDevice
\* answered with "not found" or "already attached" schedules none.
C28_OneWelcomePerConnect == [][C28_WelcomeSteps]_vars


\* The waits of connection c's device d that were added in this step: on the
\* bridge process p, and on the simulated strategy's timer.
BridgeWaitsAdded(c, d) ==
    {t \in BagToSet(timers') :
        /\ t.kind = "picoExec" /\ t.client = c /\ t.deviceId = d
        /\ CopiesIn(t, timers') = CopiesIn(t, timers) + 1}

ExecTimersAdded(c, d) ==
    {t \in BagToSet(timers') :
        /\ t.kind = "exec" /\ t.client = c /\ t.deviceId = d
        /\ CopiesIn(t, timers') = CopiesIn(t, timers) + 1}

C29_ExecuteSteps ==
    /\ (last'.kind = "executeCode" /\ Has(last'.client, last'.deviceId))
         => LET c == last'.client
                d == last'.deviceId
            IN  /\ last'.src = "message"
                /\ out' = <<>>
                /\ IF d = PicoId /\ devices[c][d].isReal /\ picoProcess # 0
                   THEN /\ Cardinality(BridgeWaitsAdded(c, d)) = 1
                        /\ \A t \in BridgeWaitsAdded(c, d) : t.proc = picoProcess
                        /\ ExecTimersAdded(c, d) = {}
                   ELSE /\ Cardinality(ExecTimersAdded(c, d)) = 1
                        /\ BridgeWaitsAdded(c, d) = {}
    /\ (last'.src = "timer" /\ last'.kind \in {"exec", "picoExec"})
         => /\ Len(out') = 1
            /\ out'[1].type \in {"codeExecuted", "error"}
            /\ out'[1].to = last'.client

\* C29: in the real-Pico server an executeCode for an attached device waits
\* on the bridge process exactly when the device is raspberry-pico, its
\* session is flagged real and a bridge process is attached, and otherwise
\* arms the simulated strategy's timer; every such request arms exactly one of
\* the two, and the timer or timeout that ends it writes exactly one
\* codeExecuted or error frame.
C29_ExecuteStrategy == [][C29_ExecuteSteps]_vars


\* C30: a build that ran arduino-cli settles by the exit code: 0 resolves
\* 'Success', a null code (killed process) resolves 'Aborted', 1 rejects
\* 'Build failed', 2 rejects 'Sketch not found', 3 rejects the invalid
\* option, 4 rejects the missing preference, any other code rejects
\* 'Unknown error'; and every exit leaves the abort poll cleared.
CliSettled == build.phase = "settled" /\ build.path = "cli"

SettledAs(how, value) == build.settled = how /\ build.value = value

C30_ExitTable ==
    CliSettled =>
        /\ build.exitCode = 0 => SettledAs("resolved", "Success")
        /\ build.exitCode = NullCode => SettledAs("resolved", "Aborted")
        /\ build.exitCode = 1 => SettledAs("rejected", "Build failed")
        /\ build.exitCode = 2 => SettledAs("rejected", "Sketch not found")
        /\ build.exitCode = 3 =>
               SettledAs("rejected", "Invalid (argument for) commandline optiond")
        /\ build.exitCode = 4 =>
               SettledAs("rejected", "Preference passed to --get-pref does not exist")
        /\ build.exitCode \notin {NullCode, 0, 1, 2, 3, 4} =>
               SettledAs("rejected", "Unknown error")

C30_BuildExitOutcome ==
    /\ C30_ExitTable
    /\ build.phase # "running" => ~build.poll

C30_Witness ==
    /\ CliSettled
    /\ build.killed
    /\ build.exitCode = NullCode
    /\ SettledAs("resolved", "Aborted")
    /\ ~build.poll


\* C31: a build on a device whose fqbn, deviceId or peripheral path contains
\* a Pico W identifier uses the PicoLib compiler and nothing else (no code
\* validation, no build cache, no arduino-cli); a build on any other device
\* never uses the PicoLib compiler.
NamesPicoW(s) ==
    \/ stringIncludes(s, "rp2040:rp2040:rpipicow")
    \/ stringIncludes(s, "arduinoRaspberryPiPicoW")
    \/ stringIncludes(s, "raspberry-pi-pico-w")
    \/ stringIncludes(s, "pico-w")

DetectedPicoW ==
    NamesPicoW(build.fqbn) \/ NamesPicoW(build.deviceId) \/ NamesPicoW(build.peripheralPath)

FlashKilledExit ==
    /\ flash.killed
    /\ flash.proc = "exited"
    /\ flash.exitCode \in {1, NullCode}
    /\ ~flash.errored

C32_AbortedFlashResolves ==
    FlashKilledExit =>
        /\ flash.settled # "rejected"
        /\ flash.settled = "resolved" => flash.value = "Aborted"


\* C33: in the real-Pico server a step sends deviceConnected for
\* raspberry-pico to a connection only when that connection holds no
\* raspberry-pico session yet, so of two pending connectDevice requests of
\* one connection only one succeeds.
C33_PendingConnectsExclusive ==
    [][ \A c \in Clients : Wrote(c, "deviceConnected") => ~Has(c, PicoId) ]_vars


\* C34: in the real-Pico server, while a registered connection holds a
\* raspberry-pico session flagged real the shared bridge is attached, and at
\* most one bridge process is alive.
RealPicoHolders ==
    {c \in activeConnections : Has(c, PicoId) /\ devices[c][PicoId].isReal}

C34_BridgeSharedSafely ==
    /\ RealPicoHolders # {} => picoProcess # 0
    /\ Cardinality(bridges) <= 1


\* C35: every telemetry deviceData frame and every welcome-action frame
\* (deviceAction, codeInjected, codeOutput) of a session comes after the
\* session's deviceConnected, and codeOutput comes after its codeInjected.
\* Such a frame is written only by the callback of its kind running for that
\* connection and device; the telemetry and welcome callbacks are armed only
\* by a step that has written deviceConnected for them as its first frame,
\* and the codeOutput callback only by a step that has written codeInjected.
SessionFrameKind(f) ==
    CASE f.type = "deviceData" /\ f.note = "telemetry" -> "telemetry"
      [] f.type \in {"deviceAction", "codeInjected"} -> "welcome"
      [] f.type = "codeOutput" -> "codeOutput"
      [] OTHER -> ""

Grown(t) == CopiesIn(t, timers') > CopiesIn(t, timers)

FirstFrameIs(type, c, d) ==
    /\ out' # <<>>
    /\ out'[1].type = type
    /\ out'[1].to = c
    /\ out'[1].deviceId = d

C35_OrderSteps ==
    /\ \A i \in DOMAIN out' :
         SessionFrameKind(out'[i]) # "" =>
            /\ last'.src = "timer"
            /\ last'.kind = SessionFrameKind(out'[i])
            /\ last'.client = out'[i].to
            /\ last'.deviceId = out'[i].deviceId
            /\ \E t \in Pending :
                 /\ t.kind = last'.kind
                 /\ t.client = last'.client
                 /\ t.deviceId = last'.deviceId
    /\ \A t \in BagToSet(timers') :
         /\ (t.kind \in {"telemetry", "welcome"} /\ Grown(t))
               => FirstFrameIs("deviceConnected", t.client, t.deviceId)
         /\ (t.kind = "codeOutput" /\ Grown(t))
               => FirstFrameIs("codeInjected", t.client, t.deviceId)

C35_SessionFramesOrdered == [][C35_OrderSteps]_vars

C35_Witness ==
    /\ last.src = "timer"
    /\ last.kind = "codeOutput"
    /\ Len(out) = 1
    /\ out[1].type = "codeOutput"
    /\ out[1].delivered
    /\ \E t \in Pending : t.kind = "telemetry" /\ t.client = last.client


\* C36: the output of a codeExecuted frame is the text of the recognised
\* print statements of the lines that are neither blank nor comments, in
\* source order, followed by the marker of each idiom that occurs on a line
\* that is not a comment.
Printed(l) ==
    CASE l.comment -> <<>>
      [] l.text = "print('hello')" -> << "hello" >>
      [] l.text = "print(f'ok')" -> << "ok" >>
      [] OTHER -> <<>>

RECURSIVE PrintedLines(_)
PrintedLines(p) ==
    IF p = <<>> THEN <<>> ELSE Printed(Head(p)) \o PrintedLines(Tail(p))

ExecutableIdiomMarkers(p) ==
    IF \E i \in DOMAIN p : ~p[i].comment /\ p[i].text = "led.on()"
    THEN << MarkLedOn >> ELSE <<>>

C36_OutputFromExecutableCode ==
    \A f \in FramesOf(out) :
        f.type = "codeExecuted" =>
            \A p \in Programs :
                CodeText(p) = f.code =>
                    f.note = join(PrintedLines(p) \o ExecutableIdiomMarkers(p), "\n")


\* C37: the build cache.  A build of code that a compiler run built with
\* success no longer than the maximum age ago resolves 'Success' without a
\* compiler; the cache changes only when a compiler run ends with success;
\* and a build is served from the cache only for code built with success no
\* longer than the maximum age ago.  The first part is stated for devices
\* that are not detected as Pico W, whose builds never reach the cache.
Compilers == {"picolib", "fallback", "arduino-cli"}

BuildCalled == last'.src = "build"

BuiltWithinAge(code) ==
    /\ code \in DOMAIN build.compiled
    /\ now - build.compiled[code] <= 86400000

ServedWithoutCompiler ==
    /\ build'.phase = "settled"
    /\ build'.settled = "resolved"
    /\ build'.value = "Success"
    /\ build'.used \cap Compilers = {}

CacheChangesOnSuccessOnly ==
    build'.cache # build.cache =>
        /\ build'.settled = "resolved"
        /\ build'.value = "Success"
        /\ build'.used \cap Compilers # {}
        /\ build'.path = "cli" => build'.exitCode = 0

StaleEntryUnused ==
    (BuildCalled /\ build'.path = "cached") => BuiltWithinAge(build'.code)

C37_CacheSteps ==
    /\ (BuildCalled /\ ~DetectedPicoW /\ BuiltWithinAge(build'.code))
          => ServedWithoutCompiler
    /\ CacheChangesOnSuccessOnly
    /\ StaleEntryUnused

\* C37, for devices not detected as Pico W: every step keeps the three parts.
C37_BuildCache == [][C37_CacheSteps]_vars

\* C37 as stated for every device, Pico W included.
C37_CacheStepsAnyDevice ==
    /\ (BuildCalled /\ BuiltWithinAge(build'.code)) => ServedWithoutCompiler
    /\ CacheChangesOnSuccessOnly
    /\ StaleEntryUnused

\* C37 for every device: every step keeps the three parts.
C37_BuildCacheAnyDevice == [][C37_CacheStepsAnyDevice]_vars

\* A build served from an entry that is exactly the maximum age old.
C37_Witness ==
    /\ last.src = "build"
    /\ build.path = "cached"
    /\ build.settled = "resolved"
    /\ build.code \in DOMAIN build.cache
    /\ now - build.cache[build.code] = maxCacheAge


\* C38: once the promise of PicoCompiler.upload has settled, the bridge
\* process is not killed again and the fallback file copy is not run.
C38_NothingAfterSettlement == upload.late = {}

====
